---- MODULE Spec2Model ----
(***************************************************************************)
(* Tool-accuracy enrichment pipeline (tool_accuracy.py,                    *)
(* tool_accuracy_polymarket.py, tool_accuracy_timeline.py): network        *)
(* retry, paginated fetches, the disk-backed cache, matching and           *)
(* enrichment.  Every handler is one action; the network is an explicit    *)
(* script of per-POST outcomes drawn from a bounded set.                   *)
(***************************************************************************)
EXTENDS Integers, Sequences, FiniteSets, TLC

VARIABLES now, calls, _cache, cache_file, _mech_cache, mech_cache_file,
          mechSrc, betSrc, pc, last

vars == <<now, calls, _cache, cache_file, _mech_cache, mech_cache_file,
          mechSrc, betSrc, pc, last>>

timeVars == <<now, calls>>
timelineCacheVars == <<_cache, cache_file>>
simpleCacheVars == <<_mech_cache, mech_cache_file>>
srcVars == <<mechSrc, betSrc>>

(***************************************************************************)
(* Program constants                                                       *)
(***************************************************************************)
MAX_RETRIES == 4
RETRY_BACKOFF_BASE == 3
CACHE_TTL_SECONDS == 3 * 60 * 60
MECH_CACHE_TTL_SECONDS == 60 * 60
MECH_LOOKBACK_SECONDS == 14 * 24 * 60 * 60

(***************************************************************************)
(* Bounds of the model                                                     *)
(***************************************************************************)
\* page size sent with every paginated query (batch_size, 1000 in the code)
BatchSize == 2
\* length of the scripted prefix of network outcomes; later POSTs succeed
MaxScript == 4

None == "None"

(***************************************************************************)
(* Sequence helpers                                                        *)
(***************************************************************************)
Range(s) == {s[i] : i \in 1..Len(s)}

Min(a, b) == IF a <= b THEN a ELSE b

\* Python s[skip : skip + first]
Slice(s, skip, first) ==
    IF skip >= Len(s) THEN <<>>
    ELSE SubSeq(s, skip + 1, Min(Len(s), skip + first))

\* all sequences over S of length at most n
SeqsUpTo(S, n) == UNION {[1..k -> S] : k \in 0..n}

\* the value of a singleton set (binds a value once computed)
Only(S) == CHOOSE v \in S : TRUE

(***************************************************************************)
(* The network: what one requests.post can yield                           *)
(***************************************************************************)
Transient == {"Timeout", "ConnectionError"}
\* 2xx responses: a body with data, a body without a 'data' key, and a body
\* {"data": null, "errors": [...]}
Bodies == {"ok", "no_data", "errors_null_data"}
Outcomes == Transient \cup {"HTTPError"} \cup Bodies
AppErrors == {"HTTPError", "no_data", "errors_null_data"}

OutcomeAt(script, i) == IF i <= Len(script) THEN script[i] ELSE "ok"

(***************************************************************************)
(* _post_with_retry: attempt = 1..MAX_RETRIES                              *)
(***************************************************************************)
BackoffWaitDouble(attempt) == RETRY_BACKOFF_BASE * (2 ^ attempt)
BackoffWait(attempt) == RETRY_BACKOFF_BASE * (2 ^ (attempt - 1))

IsLastAttemptOffByOne(attempt) == attempt = MAX_RETRIES + 1
IsLastAttempt(attempt) == attempt = MAX_RETRIES

RetriedRetryAll == Transient \cup {"HTTPError"}
Retried == Transient

RECURSIVE PostAttempt(_, _, _, _)
PostAttempt(script, i, attempt, waits) ==
    LET o == OutcomeAt(script, i) IN
    IF o \in Retried
    THEN IF IsLastAttempt(attempt)
         THEN [raised |-> TRUE, exc |-> o, resp |-> None, posts |-> attempt,
               waits |-> waits, next |-> i + 1]
         ELSE PostAttempt(script, i + 1, attempt + 1,
                          Append(waits, BackoffWait(attempt)))
    ELSE IF o = "HTTPError"
    THEN [raised |-> TRUE, exc |-> o, resp |-> None, posts |-> attempt,
          waits |-> waits, next |-> i + 1]
    ELSE [raised |-> FALSE, exc |-> None, resp |-> o, posts |-> attempt,
          waits |-> waits, next |-> i + 1]

_post_with_retry(script, i) == PostAttempt(script, i, 1, <<>>)

(***************************************************************************)
(* The mech subgraph: sender(id).requests(first, skip,                     *)
(*   where: {blockTimestamp_gt})                                           *)
(***************************************************************************)
Agents == {"a1", "a2"}

MechAvailable(src, agent_address, timestamp_gt) ==
    LET After(r) == r.blockTimestamp > timestamp_gt
    IN SelectSeq(src[agent_address], After)

\* outcome of a fetch: the value returned, or the exception raised; 'held' is
\* what the local accumulator held at that point, 'pages' the page requests made
Returned(result, pages) ==
    [raised |-> FALSE, exc |-> None, result |-> result, held |-> result,
     pages |-> pages]
Raised(exc, held, pages) ==
    [raised |-> TRUE, exc |-> exc, result |-> <<>>, held |-> held,
     pages |-> pages]

PageEntry(skip, first, r, got) ==
    [skip |-> skip, first |-> first, posts |-> r.posts, waits |-> r.waits,
     outcome |-> IF r.raised THEN r.exc ELSE r.resp, got |-> got]

\* "data" not in data
LacksDataChecksErrors(resp) == resp \in {"no_data", "errors_null_data"}
LacksData(resp) == resp = "no_data"

(***************************************************************************)
(* _fetch_all_mech_requests_from_api                                       *)
(***************************************************************************)
RECURSIVE MechPagesLoop(_, _, _, _, _, _)
MechPagesLoop(avail, script, i, skip, all_requests, pages) ==
    LET r == _post_with_retry(script, i)
        \* (data.get("data") or {}).get("sender") or {}
        batch == IF r.raised \/ r.resp # "ok" THEN <<>>
                 ELSE Slice(avail, skip, BatchSize)
        pages2 == Append(pages, PageEntry(skip, BatchSize, r, Len(batch)))
    IN IF r.raised THEN Raised(r.exc, all_requests, pages2)
       ELSE IF LacksData(r.resp)
       THEN Raised("RuntimeError", all_requests, pages2)
       ELSE IF batch = <<>> THEN Returned(all_requests, pages2)
       ELSE IF Len(batch) < BatchSize
       THEN Returned(all_requests \o batch, pages2)
       ELSE MechPagesLoop(avail, script, r.next, skip + BatchSize,
                          all_requests \o batch, pages2)

_fetch_all_mech_requests_from_api(src, agent_address, timestamp_gt, script) ==
    MechPagesLoop(MechAvailable(src, agent_address, timestamp_gt), script, 1,
                  0, <<>>, <<>>)

(***************************************************************************)
(* The bets subgraph (Omen schema)                                         *)
(***************************************************************************)
IdBase == 100

RECURSIVE SortPairs(_)
SortPairs(P) ==
    IF P = {} THEN <<>>
    ELSE LET m == CHOOSE p \in P : \A q \in P : p[1] <= q[1]
         IN <<m[2]>> \o SortPairs(P \ {m})

\* orderBy: timestamp, orderDirection: asc / desc (ties by id, same direction)
OrderAsc(S) == SortPairs({<<b.timestamp * IdBase + b.id, b>> : b \in S})
OrderDesc(S) == SortPairs({<<0 - (b.timestamp * IdBase + b.id), b>> : b \in S})

\* fixedProductMarketMaker_: {currentAnswer_not: null}
OmenResolved(src) == {b \in src : b.resolution.kind = "index"}

\* currentAnswer as the subgraph serves it: hex digits (null is not served,
\* the query filters it out)
HexDigits(n) == <<n \div 16, n % 16>>
CurrentAnswer(b) ==
    IF b.resolution.kind = "index" THEN HexDigits(b.resolution.index)
    ELSE <<>>

\* int(s, 16)
RECURSIVE HexToInt(_)
HexToInt(s) ==
    IF s = <<>> THEN 0
    ELSE 16 * HexToInt(SubSeq(s, 1, Len(s) - 1)) + s[Len(s)]

InRangeExclusiveEnd(b, start_ts, end_ts) ==
    b.timestamp >= start_ts /\ b.timestamp < end_ts
InRange(b, start_ts, end_ts) ==
    b.timestamp >= start_ts /\ b.timestamp <= end_ts

OmenRangeAvailable(src, start_ts, end_ts) ==
    OrderAsc({b \in OmenResolved(src) : InRange(b, start_ts, end_ts)})

FormatOmenBet(bet) ==
    LET chosen == bet.outcomeIndex
        correct == HexToInt(CurrentAnswer(bet))
    IN [bet_id |-> bet.id, timestamp |-> bet.timestamp, bettor |-> bet.bettor,
        service_id |-> bet.serviceId, chosen_outcome |-> chosen,
        correct_outcome |-> correct, is_correct |-> (chosen = correct),
        question |-> bet.question]

FormatAll(raw) == [k \in 1..Len(raw) |-> FormatOmenBet(raw[k])]

(***************************************************************************)
(* _fetch_bets_from_api                                                    *)
(***************************************************************************)
NextSkipByLen(skip, batch) == skip + Len(batch) - 1
NextSkip(skip, batch) == skip + BatchSize

RECURSIVE BetPagesLoop(_, _, _, _, _, _)
BetPagesLoop(avail, script, i, skip, all_raw_bets, pages) ==
    LET r == _post_with_retry(script, i)
        batch == IF r.raised \/ r.resp # "ok" THEN <<>>
                 ELSE Slice(avail, skip, BatchSize)
        pages2 == Append(pages, PageEntry(skip, BatchSize, r, Len(batch)))
    IN IF r.raised THEN Raised(r.exc, all_raw_bets, pages2)
       ELSE IF LacksData(r.resp)
       THEN Raised("RuntimeError", all_raw_bets, pages2)
       ELSE IF r.resp = "errors_null_data"
       THEN \* data["data"]["bets"] with data["data"] = None
            Raised("TypeError", all_raw_bets, pages2)
       ELSE IF batch = <<>> THEN Returned(FormatAll(all_raw_bets), pages2)
       ELSE IF Len(batch) < BatchSize
       THEN Returned(FormatAll(all_raw_bets \o batch), pages2)
       ELSE BetPagesLoop(avail, script, r.next, NextSkip(skip, batch),
                         all_raw_bets \o batch, pages2)

_fetch_bets_from_api(src, start_ts, end_ts, script) ==
    BetPagesLoop(OmenRangeAvailable(src, start_ts, end_ts), script, 1, 0,
                 <<>>, <<>>)

(***************************************************************************)
(* requests.post + raise_for_status + response.json()["data"] as the       *)
(* count-bounded scripts use them: one POST, no retry                      *)
(***************************************************************************)
SimpleExc(o) ==
    CASE o = "no_data" -> "KeyError"
      [] o = "errors_null_data" -> "TypeError"
      [] OTHER -> o

SimplePost(script, i) ==
    LET o == OutcomeAt(script, i)
    IN [raised |-> o # "ok", exc |-> IF o = "ok" THEN None ELSE SimpleExc(o),
        resp |-> IF o = "ok" THEN o ELSE None, posts |-> 1, waits |-> <<>>,
        next |-> i + 1]

(***************************************************************************)
(* tool_accuracy.py fetch_last_bets (Omen, skip-offset pagination)         *)
(***************************************************************************)
OmenLatestAvailable(src) == OrderDesc(OmenResolved(src))

FirstOfPageFull(n, have) == BatchSize
FirstOfPage(n, have) == Min(BatchSize, n - have)

RECURSIVE LastBetsLoop(_, _, _, _, _, _, _)
LastBetsLoop(avail, n, script, i, skip, all_raw_bets, pages) ==
    IF ~(Len(all_raw_bets) < n) THEN Returned(FormatAll(all_raw_bets), pages)
    ELSE
    LET first == FirstOfPage(n, Len(all_raw_bets))
        r == SimplePost(script, i)
        batch == IF r.raised THEN <<>> ELSE Slice(avail, skip, first)
        pages2 == Append(pages, PageEntry(skip, first, r, Len(batch)))
    IN IF r.raised THEN Raised(r.exc, all_raw_bets, pages2)
       ELSE IF batch = <<>> THEN Returned(FormatAll(all_raw_bets), pages2)
       ELSE IF Len(batch) < first
       THEN Returned(FormatAll(all_raw_bets \o batch), pages2)
       ELSE LastBetsLoop(avail, n, script, r.next, skip + first,
                         all_raw_bets \o batch, pages2)

fetch_last_bets(src, n, script) ==
    LastBetsLoop(OmenLatestAvailable(src), n, script, 1, 0, <<>>, <<>>)

(***************************************************************************)
(* tool_accuracy_polymarket.py fetch_last_bets (id_lt cursor, ordered by   *)
(* blockTimestamp desc); last_id = 0 stands for None                       *)
(***************************************************************************)
PolyPage(src, last_id) ==
    Slice(OrderDesc({b \in src : last_id = 0 \/ b.id < last_id}), 0, BatchSize)

FormatPolyBet(bet) ==
    LET chosen == bet.outcomeIndex
        correct == bet.resolution.index
    IN [bet_id |-> bet.id, timestamp |-> bet.timestamp, bettor |-> bet.bettor,
        service_id |-> bet.serviceId, chosen_outcome |-> chosen,
        correct_outcome |-> correct, is_correct |-> (chosen = correct),
        question_title |-> bet.question]

\* the for-loop over one batch: [raised, resolved_bets]
RECURSIVE PolyConsume(_, _, _, _)
PolyConsume(batch, k, resolved_bets, n) ==
    IF k > Len(batch) THEN [raised |-> FALSE, resolved_bets |-> resolved_bets]
    ELSE IF batch[k].resolution.kind = "none"
    THEN PolyConsume(batch, k + 1, resolved_bets, n)
    ELSE IF batch[k].resolution.kind = "null"
    THEN \* int(resolution["winningIndex"]) with winningIndex = None
         [raised |-> TRUE, resolved_bets |-> resolved_bets]
    ELSE LET got == Append(resolved_bets, FormatPolyBet(batch[k]))
         IN IF Len(got) >= n
            THEN [raised |-> FALSE, resolved_bets |-> got]
            ELSE PolyConsume(batch, k + 1, got, n)

RECURSIVE PolyLoop(_, _, _, _, _, _, _)
PolyLoop(src, n, script, i, last_id, resolved_bets, pages) ==
    IF ~(Len(resolved_bets) < n) THEN Returned(resolved_bets, pages)
    ELSE
    LET r == SimplePost(script, i)
        batch == IF r.raised THEN <<>> ELSE PolyPage(src, last_id)
        pages2 == Append(pages, PageEntry(last_id, BatchSize, r, Len(batch)))
    IN IF r.raised THEN Raised(r.exc, resolved_bets, pages2)
       ELSE IF batch = <<>> THEN Returned(resolved_bets, pages2)
       ELSE LET c == PolyConsume(batch, 1, resolved_bets, n)
            IN IF c.raised THEN Raised("TypeError", c.resolved_bets, pages2)
               ELSE PolyLoop(src, n, script, r.next, batch[Len(batch)].id,
                             c.resolved_bets, pages2)

fetch_last_bets_polymarket(src, n, script) ==
    PolyLoop(src, n, script, 1, 0, <<>>, <<>>)

(***************************************************************************)
(* tool_accuracy.py / tool_accuracy_polymarket.py fetch_all_mech_requests  *)
(***************************************************************************)
\* requests.post + raise_for_status + data.get("data", {}).get("sender"):
\* a missing 'data' key is tolerated, "data": null raises AttributeError
SimpleMechPost(script, i) ==
    LET o == OutcomeAt(script, i)
        raises == o \notin {"ok", "no_data"}
    IN [raised |-> raises,
        exc |-> IF ~raises THEN None
                ELSE IF o = "errors_null_data" THEN "AttributeError" ELSE o,
        resp |-> IF raises THEN None ELSE o, posts |-> 1, waits |-> <<>>,
        next |-> i + 1]

RECURSIVE SimpleMechLoop(_, _, _, _, _, _)
SimpleMechLoop(avail, script, i, skip, all_requests, pages) ==
    LET r == SimpleMechPost(script, i)
        batch_requests == IF r.raised \/ r.resp # "ok" THEN <<>>
                          ELSE Slice(avail, skip, BatchSize)
        pages2 == Append(pages,
                         PageEntry(skip, BatchSize, r, Len(batch_requests)))
    IN IF r.raised THEN Raised(r.exc, all_requests, pages2)
       ELSE IF batch_requests = <<>> THEN Returned(all_requests, pages2)
       ELSE IF Len(batch_requests) < BatchSize
       THEN Returned(all_requests \o batch_requests, pages2)
       ELSE SimpleMechLoop(avail, script, r.next, skip + BatchSize,
                           all_requests \o batch_requests, pages2)

fetch_all_mech_requests(src, agent_address, timestamp_gt, script) ==
    SimpleMechLoop(MechAvailable(src, agent_address, timestamp_gt), script, 1,
                   0, <<>>, <<>>)

(***************************************************************************)
(* The disk cache.  A JSON value read from the file is a dict (a set of    *)
(* key/value items) or something else; an entry is a dict with some of the *)
(* fields fetched_at, fetched_from, requests|bets, or not a dict at all.   *)
(***************************************************************************)
Dict(items) == [type |-> "dict", items |-> items]
NotADict == [type |-> "list", items |-> {}]
EmptyDict == Dict({})

Entry(keys, fetched_at, fetched_from, payload) ==
    [is_dict |-> TRUE, keys |-> keys, fetched_at |-> fetched_at,
     fetched_from |-> fetched_from, payload |-> payload]
\* an entry that is a JSON number / string / list
ScalarEntry ==
    [is_dict |-> FALSE, keys |-> {}, fetched_at |-> 0, fetched_from |-> 0,
     payload |-> <<>>]

MechEntry(fetched_at, fetched_from, requests) ==
    Entry({"fetched_at", "fetched_from", "requests"}, fetched_at, fetched_from,
          requests)
BetsEntry(fetched_at, bets) ==
    Entry({"fetched_at", "bets"}, fetched_at, 0, bets)
SimpleMechEntry(fetched_at, requests) ==
    Entry({"fetched_at", "requests"}, fetched_at, 0, requests)

\* key = f"mech:{agent_address}", f"bets:{start_ts}:{end_ts}", agent_address
MechKey(agent_address) == <<"mech", agent_address>>
BetsKey(start_ts, end_ts) == <<"bets", ToString(start_ts), ToString(end_ts)>>
SimpleKey(agent_address) == <<agent_address>>

HasKey(d, key) == \E it \in d.items : it.key = key
Get(d, key) == (CHOOSE it \in d.items : it.key = key).val
\* an assignment that leaves the new entry alone in the dict (alternative)
PutAlone(d, key, val) == Dict({[key |-> key, val |-> val]})
Put(d, key, val) ==
    Dict({it \in d.items : it.key # key} \cup {[key |-> key, val |-> val]})

\* the backing file: absent, unreadable (OSError), bytes that are not UTF-8,
\* text that is not JSON, or JSON text holding a value
Missing == [kind |-> "missing", value |-> EmptyDict]
Unreadable == [kind |-> "unreadable", value |-> EmptyDict]
NotUtf8 == [kind |-> "not_utf8", value |-> EmptyDict]
InvalidJson == [kind |-> "invalid_json", value |-> EmptyDict]
JsonText(value) == [kind |-> "json", value |-> value]

\* _load_cache: [raised, cache]
_load_cache(file) ==
    CASE file.kind = "json" -> [raised |-> FALSE, cache |-> file.value]
      [] file.kind = "not_utf8" ->
             \* UnicodeDecodeError is neither JSONDecodeError nor OSError
             [raised |-> TRUE, cache |-> EmptyDict]
      [] OTHER -> [raised |-> FALSE, cache |-> EmptyDict]

\* a save that writes an empty object (alternative)
SaveEmptied(cache) == JsonText(EmptyDict)

\* _save_cache: json.dumps of the whole dict
_save_cache(cache) == JsonText(cache)

\* outcome of a cached lookup
CallOut(raised, exc, refreshed, result, pages, cache, file) ==
    [raised |-> raised, exc |-> exc, refreshed |-> refreshed,
     result |-> result, pages |-> pages, cache |-> cache, file |-> file]

\* a save that writes the refreshed entry alone (alternative)
StoreEntryOnly(cache, key, entry) ==
    [cache |-> Put(cache, key, entry),
     file |-> _save_cache(Put(EmptyDict, key, entry))]

\* _cache[key] = entry; _save_cache(_cache)
Store(cache, key, entry) ==
    [cache |-> Put(cache, key, entry),
     file |-> _save_cache(Put(cache, key, entry))]

IsStaleAtTtl(now_, entry, ttl) == (now_ - entry.fetched_at) >= ttl
IsStale(now_, entry, ttl) == (now_ - entry.fetched_at) > ttl

WindowWiderOrEqual(entry, start_ts) ==
    start_ts <= (IF "fetched_from" \in entry.keys THEN entry.fetched_from
                 ELSE start_ts + 1)
WindowWider(entry, start_ts) ==
    start_ts < (IF "fetched_from" \in entry.keys THEN entry.fetched_from
                ELSE start_ts + 1)

\* what a refresh that raised leaves in the cache
KeepPartial(cache, key, now_, start_ts, fetch) ==
    Put(cache, key, MechEntry(now_, start_ts, fetch.held))
AfterFailedRefresh(cache, key, now_, start_ts, fetch) == cache

(***************************************************************************)
(* tool_accuracy_timeline.py get_mech_requests_cached                      *)
(***************************************************************************)
get_mech_requests_cached(cache, file, now_, src, agent_address, start_ts, script) ==
    LET key == MechKey(agent_address)
        hit == cache.type = "dict" /\ HasKey(cache, key)
        entry == IF hit THEN Get(cache, key) ELSE ScalarEntry
        Fail(exc) == CallOut(TRUE, exc, FALSE, <<>>, <<>>, cache, file)
        Refresh ==
            LET f == _fetch_all_mech_requests_from_api(src, agent_address,
                                                       start_ts, script)
                st == Store(cache, key, MechEntry(now_, start_ts, f.result))
            IN IF f.raised
               THEN CallOut(TRUE, f.exc, TRUE, <<>>, f.pages,
                            AfterFailedRefresh(cache, key, now_, start_ts, f),
                            file)
               ELSE CallOut(FALSE, None, TRUE, f.result, f.pages, st.cache,
                            st.file)
    IN IF cache.type # "dict" THEN Fail("AttributeError")
       ELSE IF ~hit THEN Refresh
       ELSE IF ~entry.is_dict THEN Fail("AttributeError")
       ELSE IF WindowWider(entry, start_ts) THEN Refresh
       ELSE IF "fetched_at" \notin entry.keys THEN Fail("KeyError")
       ELSE IF IsStale(now_, entry, CACHE_TTL_SECONDS) THEN Refresh
       ELSE IF "requests" \notin entry.keys THEN Fail("KeyError")
       ELSE CallOut(FALSE, None, FALSE, entry.payload, <<>>, cache, file)

(***************************************************************************)
(* tool_accuracy_timeline.py fetch_bets_in_range                           *)
(***************************************************************************)
fetch_bets_in_range(cache, file, now_, src, start_ts, end_ts, script) ==
    LET key == BetsKey(start_ts, end_ts)
        hit == cache.type = "dict" /\ HasKey(cache, key)
        entry == IF hit THEN Get(cache, key) ELSE ScalarEntry
        Fail(exc) == CallOut(TRUE, exc, FALSE, <<>>, <<>>, cache, file)
        Refresh ==
            LET f == _fetch_bets_from_api(src, start_ts, end_ts, script)
                st == Store(cache, key, BetsEntry(now_, f.result))
            IN IF f.raised
               THEN CallOut(TRUE, f.exc, TRUE, <<>>, f.pages, cache, file)
               ELSE CallOut(FALSE, None, TRUE, f.result, f.pages, st.cache,
                            st.file)
    IN IF cache.type # "dict" THEN Fail("AttributeError")
       ELSE IF ~hit THEN Refresh
       ELSE IF ~entry.is_dict THEN Fail("TypeError")
       ELSE IF "fetched_at" \notin entry.keys THEN Fail("KeyError")
       ELSE IF IsStale(now_, entry, CACHE_TTL_SECONDS) THEN Refresh
       ELSE IF "bets" \notin entry.keys THEN Fail("KeyError")
       ELSE CallOut(FALSE, None, FALSE, entry.payload, <<>>, cache, file)

(***************************************************************************)
(* tool_accuracy.py / tool_accuracy_polymarket.py get_mech_requests_cached *)
(* (timestamp_gt = None: the lookback window ends now)                     *)
(***************************************************************************)
get_mech_requests_cached_simple(cache, file, now_, src, agent_address, script) ==
    LET key == SimpleKey(agent_address)
        hit == cache.type = "dict" /\ HasKey(cache, key)
        entry == IF hit THEN Get(cache, key) ELSE ScalarEntry
        Fail(exc) == CallOut(TRUE, exc, FALSE, <<>>, <<>>, cache, file)
        Refresh ==
            LET f == fetch_all_mech_requests(src, agent_address,
                                             now_ - MECH_LOOKBACK_SECONDS,
                                             script)
                st == Store(cache, key, SimpleMechEntry(now_, f.result))
            IN IF f.raised
               THEN CallOut(TRUE, f.exc, TRUE, <<>>, f.pages, cache, file)
               ELSE CallOut(FALSE, None, TRUE, f.result, f.pages, st.cache,
                            st.file)
    IN IF cache.type # "dict" THEN Fail("AttributeError")
       ELSE IF ~hit THEN Refresh
       ELSE IF ~entry.is_dict THEN Fail("TypeError")
       ELSE IF "fetched_at" \notin entry.keys THEN Fail("KeyError")
       ELSE IF IsStale(now_, entry, MECH_CACHE_TTL_SECONDS) THEN Refresh
       ELSE IF "requests" \notin entry.keys THEN Fail("KeyError")
       ELSE CallOut(FALSE, None, FALSE, entry.payload, <<>>, cache, file)

(***************************************************************************)
(* Data served by the two subgraphs.  Strings that the code inspects       *)
(* (question titles) are sequences of characters.                          *)
(***************************************************************************)
QUESTION_DATA_SEPARATOR == "SEP"

\* largest timestamp of a bet and of a requested window
MaxTs == 2
\* the clock when the process starts
StartTime == 10

Req(ts, title, tool) ==
    [blockTimestamp |-> ts,
     parsedRequest |-> [present |-> TRUE, questionTitle |-> title,
                        tool |-> tool]]

\* a request whose parsedRequest is null
ReqUnparsed(ts) ==
    [blockTimestamp |-> ts,
     parsedRequest |-> [present |-> FALSE, questionTitle |-> <<>>,
                        tool |-> None]]

MechWorld0 ==
    [a \in Agents |->
       IF a = "a1"
       THEN << Req(0, <<"r", "a">>, "A"),
               Req(1, <<"r", "a", "i", " ">>, "B"),
               Req(2, <<"s">>, None),
               Req(2, <<"s", " ">>, "A"),
               ReqUnparsed(3) >>
       ELSE << Req(1, <<"r", "a">>, "B"),
               Req(3, <<" ", "s">>, "A") >>]

BettorOf(id) == IF id % 2 = 1 THEN "a1" ELSE "a2"

QuestionOf(id) ==
    CASE id % 3 = 1 -> <<"r", "a", QUESTION_DATA_SEPARATOR, "m">>
      [] id % 3 = 2 -> <<"r", "a", "i", "n">>
      [] OTHER -> <<"s", " ">>

\* a raw bet as stored by the subgraph; its resolution is absent ("none": no
\* resolution object / no current answer), present with a null winning index
\* ("null"), or present with the winning outcome index ("index")
NoResolution == [kind |-> "none", index |-> 0]
NullIndex == [kind |-> "null", index |-> 0]
Won(i) == [kind |-> "index", index |-> i]

RawBet(id, ts, res) ==
    [id |-> id, timestamp |-> ts, bettor |-> BettorOf(id), serviceId |-> id,
     outcomeIndex |-> id % 2, resolution |-> res, question |-> QuestionOf(id)]

BetWorld0 ==
    {RawBet(1, 1, Won(1)), RawBet(2, 2, Won(1)), RawBet(3, 2, Won(0))}

StartTs == {0, 1}
Windows == {<<s, e>> \in (0..MaxTs) \X (0..MaxTs) : s < e}
Scripts == SeqsUpTo(Outcomes, MaxScript)

NoCall == [op |-> "none"]

(***************************************************************************)
(* Specification SpecPost: single calls of _post_with_retry and of the two *)
(* paginated fetches built on it, under every scripted network behaviour.  *)
(***************************************************************************)
InitFixed ==
    /\ now = StartTime
    /\ calls = 0
    /\ _cache = EmptyDict
    /\ cache_file = Missing
    /\ _mech_cache = EmptyDict
    /\ mech_cache_file = Missing
    /\ mechSrc = MechWorld0
    /\ betSrc = BetWorld0
    /\ pc = "idle"
    /\ last = NoCall

stateVars == <<timeVars, timelineCacheVars, simpleCacheVars, srcVars>>

CallPostWithRetry ==
    /\ pc = "idle"
    /\ \E script \in Scripts :
          last' = [op |-> "_post_with_retry", script |-> script,
                   out |-> _post_with_retry(script, 1)]
    /\ pc' = "done"
    /\ UNCHANGED stateVars

CallFetchMechFromApi ==
    /\ pc = "idle"
    /\ \E agent \in Agents, ts \in StartTs, script \in Scripts :
          last' = [op |-> "_fetch_all_mech_requests_from_api",
                   agent |-> agent, timestamp_gt |-> ts, script |-> script,
                   out |-> _fetch_all_mech_requests_from_api(mechSrc, agent,
                                                             ts, script)]
    /\ pc' = "done"
    /\ UNCHANGED stateVars

CallFetchBetsFromApi ==
    /\ pc = "idle"
    /\ \E w \in Windows, script \in Scripts :
          last' = [op |-> "_fetch_bets_from_api", start_ts |-> w[1],
                   end_ts |-> w[2], script |-> script,
                   out |-> _fetch_bets_from_api(betSrc, w[1], w[2], script)]
    /\ pc' = "done"
    /\ UNCHANGED stateVars

NextPost == CallPostWithRetry \/ CallFetchMechFromApi \/ CallFetchBetsFromApi

SpecPost == InitFixed /\ [][NextPost]_vars

(***************************************************************************)
(* Claims about _post_with_retry and the fetches (SpecPost)                *)
(***************************************************************************)
IsTransientAt(script, j) == OutcomeAt(script, j) \in Transient

\* C6: _post_with_retry makes at most MAX_RETRIES (4) POSTs; every attempt
\* before the last one made failed transiently and was followed by a wait of
\* 3, 6, 12 seconds; the first attempt that is not a transient failure ends
\* the call (a response is returned as it is); four transient failures in a
\* row raise the fourth exception with no fourth wait.
C6_RetryBackoff ==
    (pc = "done" /\ last.op = "_post_with_retry") =>
        LET s == last.script
            o == last.out
            k == o.posts
        IN /\ k \in 1..4
           /\ \A j \in 1..(k - 1) : IsTransientAt(s, j)
           /\ o.waits = SubSeq(<<3, 6, 12>>, 1, k - 1)
           /\ (OutcomeAt(s, k) \in Bodies =>
                   ~o.raised /\ o.resp = OutcomeAt(s, k))
           /\ (IsTransientAt(s, k) =>
                   k = 4 /\ o.raised /\ o.exc = OutcomeAt(s, 4))

\* C6 witness: a call that failed four times, waited 3, 6, 12 and raised
C6_Witness ==
    /\ pc = "done" /\ last.op = "_post_with_retry"
    /\ last.out.raised /\ last.out.posts = 4
    /\ last.out.waits = <<3, 6, 12>>
    /\ last.script = <<"Timeout", "Timeout", "ConnectionError", "Timeout">>

IsFetch == pc = "done" /\ last.op \in {"_fetch_all_mech_requests_from_api",
                                       "_fetch_bets_from_api"}

\* C7: in a paginated fetch, a page answered with an application-level error
\* (non-2xx status, a body without 'data', a body with a GraphQL 'errors'
\* payload) is the last request of the fetch (nothing is retried or requested
\* after it) and the fetch raises to its caller.
C7_AppErrorNotRetried ==
    IsFetch =>
        \A p \in 1..Len(last.out.pages) :
            last.out.pages[p].outcome \in AppErrors =>
                /\ p = Len(last.out.pages)
                /\ last.out.raised

\* C7 case: a mech fetch that met an 'errors' payload beside "data": null
C7_ErrorsPayloadSwallowed ==
    /\ pc = "done" /\ last.op = "_fetch_all_mech_requests_from_api"
    /\ \E p \in 1..Len(last.out.pages) :
           last.out.pages[p].outcome = "errors_null_data"
    /\ ~last.out.raised

(***************************************************************************)
(* Specification SpecBets: one bet fetch against a static bets subgraph    *)
(* drawn from every small population of bets; the network answers every    *)
(* POST.                                                                   *)
(***************************************************************************)
\* bet ids are 1..MaxBetId
MaxBetId == 3
\* largest count asked of fetch_last_bets
MaxN == 4

Resolutions == {NoResolution, NullIndex, Won(1)}

BetChoices(id) ==
    {{}} \cup {{RawBet(id, ts, res)} : ts \in 1..MaxTs, res \in Resolutions}

RECURSIVE BetWorldsUpTo(_)
BetWorldsUpTo(k) ==
    IF k = 0 THEN {{}}
    ELSE {w \cup c : w \in BetWorldsUpTo(k - 1), c \in BetChoices(k)}

BetWorlds == BetWorldsUpTo(MaxBetId)

InitBets ==
    /\ now = StartTime
    /\ calls = 0
    /\ _cache = EmptyDict
    /\ cache_file = Missing
    /\ _mech_cache = EmptyDict
    /\ mech_cache_file = Missing
    /\ mechSrc = MechWorld0
    /\ betSrc \in BetWorlds
    /\ pc = "idle"
    /\ last = NoCall

CallFetchLastBets ==
    /\ pc = "idle"
    /\ \E n \in 0..MaxN :
          last' = [op |-> "fetch_last_bets", n |-> n,
                   out |-> fetch_last_bets(betSrc, n, <<>>)]
    /\ pc' = "done"
    /\ UNCHANGED stateVars

CallFetchLastBetsPolymarket ==
    /\ pc = "idle"
    /\ \E n \in 0..MaxN :
          last' = [op |-> "fetch_last_bets_polymarket", n |-> n,
                   out |-> fetch_last_bets_polymarket(betSrc, n, <<>>)]
    /\ pc' = "done"
    /\ UNCHANGED stateVars

CallFetchBetsInWindow ==
    /\ pc = "idle"
    /\ \E w \in Windows :
          last' = [op |-> "_fetch_bets_from_api", start_ts |-> w[1],
                   end_ts |-> w[2], script |-> <<>>,
                   out |-> _fetch_bets_from_api(betSrc, w[1], w[2], <<>>)]
    /\ pc' = "done"
    /\ UNCHANGED stateVars

NextBets ==
    CallFetchLastBets \/ CallFetchLastBetsPolymarket \/ CallFetchBetsInWindow

SpecBets == InitBets /\ [][NextBets]_vars

(***************************************************************************)
(* Claims about the bet fetches (SpecBets)                                 *)
(***************************************************************************)
Resolved(src) == {b \in src : b.resolution.kind = "index"}
BetIds(bets) == [k \in 1..Len(bets) |-> bets[k].bet_id]
NoDuplicates(seq) == \A i, j \in 1..Len(seq) : seq[i] = seq[j] => i = j
TsOf(src, id) == (CHOOSE b \in src : b.id = id).timestamp

IsLastBetsCall == pc = "done" /\ last.op \in {"fetch_last_bets",
                                              "fetch_last_bets_polymarket"}

\* the returned ids are a most-recent selection of the resolved bets
MostRecent(src, ids) ==
    /\ Range(ids) \subseteq {b.id : b \in Resolved(src)}
    /\ \A b \in Resolved(src) :
          b.id \notin Range(ids) =>
              \A i \in 1..Len(ids) : TsOf(src, ids[i]) >= b.timestamp

\* C8: fetch_last_bets(n) (Omen and Polymarket), when it returns, returns
\* exactly min(n, R) bets, R the number of resolved bets at the source; they
\* are the most recent resolved bets and none appears twice.
C8_LastBetsExact ==
    (IsLastBetsCall /\ ~last.out.raised) =>
        LET ids == BetIds(last.out.result)
        IN /\ Len(ids) = Min(last.n, Cardinality(Resolved(betSrc)))
           /\ NoDuplicates(ids)
           /\ MostRecent(betSrc, ids)

\* the count-bounded Omen fetch alone does return the min(n, R) most recent
OmenLastBetsExact ==
    (pc = "done" /\ last.op = "fetch_last_bets") =>
        LET ids == BetIds(last.out.result)
        IN /\ ~last.out.raised
           /\ Len(ids) = Min(last.n, Cardinality(Resolved(betSrc)))
           /\ NoDuplicates(ids)
           /\ MostRecent(betSrc, ids)

IsWindowCall == pc = "done" /\ last.op = "_fetch_bets_from_api"

\* C9: _fetch_bets_from_api(start_ts, end_ts) returns every resolved bet with
\* start_ts <= timestamp <= end_ts exactly once, in ascending timestamp
\* order, and the only page holding fewer than batch_size records is the
\* last page requested.
C9_RangeFetchComplete ==
    IsWindowCall =>
        LET out == last.out
            ids == BetIds(out.result)
            want == {b.id : b \in {x \in Resolved(betSrc) :
                                     /\ last.start_ts <= x.timestamp
                                     /\ x.timestamp <= last.end_ts}}
        IN /\ ~out.raised
           /\ Range(ids) = want
           /\ NoDuplicates(ids)
           /\ \A i \in 1..(Len(ids) - 1) :
                 out.result[i].timestamp <= out.result[i + 1].timestamp
           /\ \A p \in 1..Len(out.pages) :
                 (out.pages[p].got < out.pages[p].first) <=> p = Len(out.pages)

\* C9 witness: a window holding exactly one full page of resolved bets (a
\* second, empty page ends the fetch) while a later resolved bet lies outside
C9_Witness ==
    /\ IsWindowCall
    /\ Len(last.out.result) = BatchSize
    /\ Len(last.out.pages) = 2
    /\ \E b \in Resolved(betSrc) : b.timestamp > last.end_ts

\* C10: a raw bet without usable resolution data (no resolution object, or a
\* null winning index) is left out of the result and does not make the fetch
\* fail; every returned bet has is_correct = (chosen_outcome = correct_outcome).
C10_MalformedResolutionExcluded ==
    IsLastBetsCall =>
        /\ ~last.out.raised
        /\ Range(BetIds(last.out.result)) \subseteq
               {b.id : b \in Resolved(betSrc)}
        /\ \A k \in 1..Len(last.out.result) :
              LET b == last.out.result[k]
              IN b.is_correct <=> (b.chosen_outcome = b.correct_outcome)

\* C10 case: the Polymarket fetch raised on a resolution with a null index
C10_NullIndexRaises ==
    /\ pc = "done" /\ last.op = "fetch_last_bets_polymarket"
    /\ last.out.raised /\ last.out.exc = "TypeError"

(***************************************************************************)
(* Specification SpecCache: one process using both caches over time.  The  *)
(* clock moves between calls; a restart reloads the caches from the files. *)
(***************************************************************************)
\* number of cached lookups in one behaviour
MaxCalls == 2

\* the instants at which the clock is read: ages TTL - 1, TTL, TTL + 1 of
\* both caches, counted from the start
Instants ==
    {StartTime + d : d \in {0, MECH_CACHE_TTL_SECONDS - 1,
                            MECH_CACHE_TTL_SECONDS, MECH_CACHE_TTL_SECONDS + 1,
                            CACHE_TTL_SECONDS - 1, CACHE_TTL_SECONDS,
                            CACHE_TTL_SECONDS + 1}}

\* network behaviours during a refresh: all pages answered; page 2 answered
\* with a non-2xx status; page 1 timing out on every attempt; page 2 answered
\* with an 'errors' payload
CacheScripts ==
    {<<>>, <<"ok", "HTTPError">>,
     <<"Timeout", "Timeout", "Timeout", "Timeout">>,
     <<"ok", "errors_null_data">>}

CacheWindows == {<<0, MaxTs>>, <<1, MaxTs>>}

PreEntry(cache, key) ==
    IF cache.type = "dict" /\ HasKey(cache, key) THEN Get(cache, key)
    ELSE ScalarEntry
HadEntry(cache, key) == cache.type = "dict" /\ HasKey(cache, key)

Outcome(o) ==
    [raised |-> o.raised, exc |-> o.exc, refreshed |-> o.refreshed,
     result |-> o.result, pages |-> o.pages]

CallRecord(op, key, start_ts, ttl, cache, o) ==
    [op |-> op, key |-> key, start_ts |-> start_ts, ttl |-> ttl, at |-> now,
     dict |-> cache.type = "dict", had |-> HadEntry(cache, key),
     pre |-> PreEntry(cache, key),
     out |-> Outcome(o)]

InitCache ==
    /\ now = StartTime
    /\ calls = 0
    /\ _cache = EmptyDict
    /\ cache_file = Missing
    /\ _mech_cache = EmptyDict
    /\ mech_cache_file = Missing
    /\ mechSrc = MechWorld0
    /\ betSrc = BetWorld0
    /\ pc = "run"
    /\ last = NoCall

Tick ==
    /\ pc = "run"
    /\ \E t \in Instants : t > now /\ now' = t
    /\ UNCHANGED <<calls, timelineCacheVars, simpleCacheVars, srcVars, pc,
                   last>>

GetMechRequestsCached ==
    /\ pc = "run"
    /\ calls < MaxCalls
    /\ \E agent \in Agents, start_ts \in StartTs, script \in CacheScripts :
          LET o == get_mech_requests_cached(_cache, cache_file, now, mechSrc,
                                            agent, start_ts, script)
          IN /\ _cache' = o.cache
             /\ cache_file' = o.file
             /\ last' = CallRecord("get_mech_requests_cached", MechKey(agent),
                                   start_ts, CACHE_TTL_SECONDS, _cache, o)
    /\ calls' = calls + 1
    /\ UNCHANGED <<now, simpleCacheVars, srcVars, pc>>

FetchBetsInRange ==
    /\ pc = "run"
    /\ calls < MaxCalls
    /\ \E w \in CacheWindows, script \in CacheScripts :
          LET o == fetch_bets_in_range(_cache, cache_file, now, betSrc, w[1],
                                       w[2], script)
          IN /\ _cache' = o.cache
             /\ cache_file' = o.file
             /\ last' = CallRecord("fetch_bets_in_range", BetsKey(w[1], w[2]),
                                   w[1], CACHE_TTL_SECONDS, _cache, o)
    /\ calls' = calls + 1
    /\ UNCHANGED <<now, simpleCacheVars, srcVars, pc>>

GetMechRequestsCachedSimple ==
    /\ pc = "run"
    /\ calls < MaxCalls
    /\ \E agent \in Agents, script \in CacheScripts :
          LET o == get_mech_requests_cached_simple(_mech_cache,
                       mech_cache_file, now, mechSrc, agent, script)
          IN /\ _mech_cache' = o.cache
             /\ mech_cache_file' = o.file
             /\ last' = CallRecord("get_mech_requests_cached_simple",
                                   SimpleKey(agent),
                                   now - MECH_LOOKBACK_SECONDS,
                                   MECH_CACHE_TTL_SECONDS, _mech_cache, o)
    /\ calls' = calls + 1
    /\ UNCHANGED <<now, timelineCacheVars, srcVars, pc>>

\* the process ends and a new one starts: _cache = _load_cache()
Restart ==
    /\ pc = "run"
    /\ ~_load_cache(cache_file).raised
    /\ ~_load_cache(mech_cache_file).raised
    /\ _cache' = _load_cache(cache_file).cache
    /\ _mech_cache' = _load_cache(mech_cache_file).cache
    /\ last' = NoCall
    /\ UNCHANGED <<timeVars, cache_file, mech_cache_file, srcVars, pc>>

NextCache ==
    \/ Tick
    \/ GetMechRequestsCached
    \/ FetchBetsInRange
    \/ GetMechRequestsCachedSimple
    \/ Restart

SpecCache == InitCache /\ [][NextCache]_vars

(***************************************************************************)
(* Claims about the cache (SpecCache)                                      *)
(***************************************************************************)
IsTimelineMechCall == last.op = "get_mech_requests_cached"
IsCachedCall ==
    last.op \in {"get_mech_requests_cached", "fetch_bets_in_range",
                 "get_mech_requests_cached_simple"}
Age == last.at - last.pre.fetched_at

\* C1: get_mech_requests_cached(agent, start_ts) goes to the network iff
\* (a) the agent has no entry, or (b) start_ts is earlier than the entry's
\* fetched_from, or (c) now - fetched_at exceeds the TTL; otherwise it
\* returns the cached requests and makes no request.
C1_RefreshPolicy ==
    IsTimelineMechCall =>
        /\ last.out.refreshed <=>
              \/ ~last.had
              \/ last.start_ts < last.pre.fetched_from
              \/ Age > CACHE_TTL_SECONDS
        /\ (Len(last.out.pages) > 0) <=> last.out.refreshed
        /\ ~last.out.refreshed =>
              ~last.out.raised /\ last.out.result = last.pre.payload

\* C1 witness: an entry fetched from T2 and still young, asked for from
\* T1 < T2, is fetched again
C1_Witness ==
    /\ IsTimelineMechCall /\ last.had
    /\ last.start_ts < last.pre.fetched_from
    /\ Age <= CACHE_TTL_SECONDS
    /\ last.out.refreshed /\ ~last.out.raised

\* C1 witness: an entry of age TTL + 1 covering the window is fetched again
C1_WitnessStale ==
    /\ IsTimelineMechCall /\ last.had
    /\ last.start_ts >= last.pre.fetched_from
    /\ Age = CACHE_TTL_SECONDS + 1
    /\ last.out.refreshed

\* C2 as stated: an entry is served without refetch only while
\* now - fetched_at < TTL (an entry of age exactly TTL is not served)
C2_ServedOnlyBelowTtl ==
    (IsCachedCall /\ last.had /\ ~last.out.refreshed) => Age < last.ttl

\* C2 amended: an entry is served without refetch only while
\* now - fetched_at <= TTL, and an entry of age exactly TTL (covering the
\* requested window) is served from the cache.
C2_ServedUpToTtl ==
    (IsCachedCall /\ last.had) =>
        /\ ~last.out.refreshed => Age <= last.ttl
        /\ (Age = last.ttl /\ (IsTimelineMechCall =>
                                  last.start_ts >= last.pre.fetched_from))
              => ~last.out.refreshed /\ last.out.result = last.pre.payload

\* C2 witness: an entry of age exactly TTL served from the cache
C2_Witness ==
    /\ IsCachedCall /\ last.had /\ Age = last.ttl
    /\ ~last.out.refreshed /\ ~last.out.raised

AllCaches == <<_cache, cache_file, _mech_cache, mech_cache_file>>

\* C3: a cached lookup whose refresh raised leaves both caches and both
\* files exactly as they were; a step changes a cache only by a lookup that
\* returned, and what it stores under the key is the fetch's returned list,
\* also written to the file.
C3_FailedRefreshKeepsCache ==
    [][ /\ (last' # last /\ last'.op # "none" /\ last'.out.raised)
            => AllCaches' = AllCaches
        /\ (_cache' # _cache \/ cache_file' # cache_file
            \/ _mech_cache' # _mech_cache
            \/ mech_cache_file' # mech_cache_file)
            => /\ last'.out.refreshed /\ ~last'.out.raised
               /\ cache_file'.kind = "json" => cache_file'.value = _cache'
               /\ mech_cache_file'.kind = "json"
                     => mech_cache_file'.value = _mech_cache'
               /\ LET c == IF last'.op = "get_mech_requests_cached_simple"
                           THEN _mech_cache' ELSE _cache'
                  IN Get(c, last'.key).payload = last'.out.result
      ]_vars

\* C3 witness: the refresh of an existing entry failed on its second page
C3_Witness ==
    /\ IsCachedCall /\ last.had /\ last.out.refreshed /\ last.out.raised
    /\ Len(last.out.pages) = 2
    /\ PreEntry(IF last.op = "get_mech_requests_cached_simple"
                THEN _mech_cache ELSE _cache, last.key) = last.pre

(***************************************************************************)
(* Matching a bet to the mech requests of its agent                        *)
(***************************************************************************)
\* question.split(QUESTION_DATA_SEPARATOR)[0]
RECURSIVE SplitFirst(_, _)
SplitFirst(s, sep) ==
    IF s = <<>> THEN <<>>
    ELSE IF Head(s) = sep THEN <<>>
    ELSE <<Head(s)>> \o SplitFirst(Tail(s), sep)

extract_question_title(question) ==
    IF question = <<>> THEN <<>>
    ELSE SplitFirst(question, QUESTION_DATA_SEPARATOR)

RECURSIVE lstrip(_)
lstrip(s) ==
    IF s = <<>> THEN s
    ELSE IF Head(s) = " " THEN lstrip(Tail(s)) ELSE s

RECURSIVE rstrip(_)
rstrip(s) ==
    IF s = <<>> THEN s
    ELSE IF s[Len(s)] = " " THEN rstrip(SubSeq(s, 1, Len(s) - 1)) ELSE s

strip(s) == rstrip(lstrip(s))

startswith(s, prefix) ==
    Len(prefix) <= Len(s) /\ SubSeq(s, 1, Len(prefix)) = prefix

\* (req.get("parsedRequest") or {}).get("questionTitle", "")
QuestionTitleOf(req) ==
    IF req.parsedRequest.present THEN req.parsedRequest.questionTitle
    ELSE <<>>

TitlesMatchOneWay(bet_title, mech_title) ==
    /\ mech_title # <<>>
    /\ startswith(bet_title, mech_title)
TitlesMatch(bet_title, mech_title) ==
    /\ mech_title # <<>>
    /\ startswith(bet_title, mech_title) \/ startswith(mech_title, bet_title)

\* question: bet["question"] (Omen) or bet["question_title"] (Polymarket)
match_bet_to_mech_request(question, mech_requests) ==
    LET bet_title == strip(extract_question_title(question))
    IN IF bet_title = <<>> THEN <<>>
       ELSE SelectSeq(mech_requests,
                LAMBDA req :
                    TitlesMatch(bet_title,
                        strip(extract_question_title(QuestionTitleOf(req)))))

MaxByTimestampLast(reqs) ==
    reqs[CHOOSE i \in 1..Len(reqs) :
            \A j \in 1..Len(reqs) :
                /\ reqs[j].blockTimestamp <= reqs[i].blockTimestamp
                /\ j > i => reqs[j].blockTimestamp < reqs[i].blockTimestamp]
\* max(before_bet, key=blockTimestamp): the first request of greatest
\* timestamp
MaxByTimestamp(reqs) ==
    reqs[CHOOSE i \in 1..Len(reqs) :
            \A j \in 1..Len(reqs) :
                /\ reqs[j].blockTimestamp <= reqs[i].blockTimestamp
                /\ j < i => reqs[j].blockTimestamp < reqs[i].blockTimestamp]

\* (chosen.get("parsedRequest") or {}).get("tool") or "unknown"
ToolOrUnknown(req) ==
    IF req.parsedRequest.present /\ req.parsedRequest.tool # None
    THEN req.parsedRequest.tool
    ELSE "unknown"

BeforeBetStrict(matches, bet_ts) ==
    SelectSeq(matches, LAMBDA r : r.blockTimestamp < bet_ts)
\* before_bet = [r for r in matches if blockTimestamp <= bet_ts]
BeforeBet(matches, bet_ts) ==
    SelectSeq(matches, LAMBDA r : r.blockTimestamp <= bet_ts)

\* chosen = max(before_bet, ...) if before_bet else matches[0]
Chosen(matches, bet_ts) ==
    IF BeforeBet(matches, bet_ts) # <<>>
    THEN MaxByTimestamp(BeforeBet(matches, bet_ts))
    ELSE matches[1]

ToolOfFirstWithTool(matches, bet_ts) ==
    IF SelectSeq(matches, LAMBDA r : ToolOrUnknown(r) # "unknown") # <<>>
    THEN ToolOrUnknown(
             SelectSeq(matches, LAMBDA r : ToolOrUnknown(r) # "unknown")[1])
    ELSE "unknown"
\* tool = (chosen.get("parsedRequest") or {}).get("tool") or "unknown"
ToolOfChosen(matches, bet_ts) == ToolOrUnknown(Chosen(matches, bet_ts))

\* the body of the enrichment loop: the tool attached to one bet
ToolFor(question, bet_ts, mech_requests) ==
    LET matches == match_bet_to_mech_request(question, mech_requests)
    IN IF matches = <<>> THEN "unknown"
       ELSE ToolOfChosen(matches, bet_ts)

\* {**bet, "tool": tool}
WithTool(bet, tool) == bet @@ ("tool" :> tool)

(***************************************************************************)
(* tool_accuracy_timeline.py enrich_bets_with_tool.  order is the order in *)
(* which the set of agents is iterated; scripts gives the behaviour of the *)
(* network during each agent's fetch.                                      *)
(***************************************************************************)
\* fetched: the agents whose paginated fetch was started, in order
EnrichOut(raised, exc, enriched, failed_agents, fetched, cache, file) ==
    [raised |-> raised, exc |-> exc, enriched |-> enriched,
     failed_agents |-> failed_agents, fetched |-> fetched, cache |-> cache,
     file |-> file]

FetchedAfter(fetched, agent, o) ==
    IF o.refreshed THEN Append(fetched, agent) ELSE fetched

AgentsOf(bets) == {bets[k].bettor : k \in 1..Len(bets)}

\* a loop over agents that gives up at the first failed agent
RECURSIVE AgentRequestsLoopStopping(_, _, _, _, _, _, _, _, _, _, _)
AgentRequestsLoopStopping(order, k, agent_requests, failed_agents, fetched, cache, file, now_, src, start_ts, scripts) ==
    IF k > Len(order)
    THEN [agent_requests |-> agent_requests,
          failed_agents |-> failed_agents, fetched |-> fetched,
          cache |-> cache, file |-> file]
    ELSE Only({
           IF o.raised
           THEN [agent_requests |-> agent_requests,
                 failed_agents |-> failed_agents \cup {order[k]},
                 fetched |-> fetched, cache |-> o.cache, file |-> o.file]
           ELSE AgentRequestsLoopStopping(order, k + 1,
                    [agent_requests EXCEPT ![order[k]] = o.result],
                    failed_agents, fetched, o.cache, o.file, now_, src,
                    start_ts, scripts) :
           o \in {get_mech_requests_cached(cache, file, now_, src, order[k],
                                          start_ts, scripts[order[k]])}})

\* the loop over agents: [agent_requests, failed_agents, fetched, cache,
\* file]
RECURSIVE AgentRequestsLoop(_, _, _, _, _, _, _, _, _, _, _)
AgentRequestsLoop(order, k, agent_requests, failed_agents, fetched, cache, file, now_, src, start_ts, scripts) ==
    IF k > Len(order)
    THEN [agent_requests |-> agent_requests,
          failed_agents |-> failed_agents, fetched |-> fetched,
          cache |-> cache, file |-> file]
    ELSE LET agent == order[k]
         IN Only({
              IF o.raised
              THEN AgentRequestsLoop(order, k + 1,
                       [agent_requests EXCEPT ![agent] = <<>>],
                       failed_agents \cup {agent},
                       FetchedAfter(fetched, agent, o), o.cache, o.file, now_,
                       src, start_ts, scripts)
              ELSE AgentRequestsLoop(order, k + 1,
                       [agent_requests EXCEPT ![agent] = o.result],
                       failed_agents, FetchedAfter(fetched, agent, o),
                       o.cache, o.file, now_, src, start_ts, scripts) :
              o \in {get_mech_requests_cached(cache, file, now_, src, agent,
                                             start_ts, scripts[agent])}})

enrich_bets_with_tool(cache, file, now_, src, bets, start_ts, order, scripts) ==
    Only({
      EnrichOut(FALSE, None,
          [k \in 1..Len(bets) |->
              WithTool(bets[k],
                  ToolFor(bets[k].question, bets[k].timestamp,
                          l.agent_requests[bets[k].bettor]))],
          l.failed_agents, l.fetched, l.cache, l.file) :
      l \in {AgentRequestsLoop(order, 1, [a \in Agents |-> <<>>], {}, <<>>,
                               cache, file, now_, src, start_ts, scripts)}})

(***************************************************************************)
(* tool_accuracy.py / tool_accuracy_polymarket.py enrich_bets_with_tool:   *)
(* one cached lookup per bet, nothing caught.  questions[k] is the         *)
(* question text of bets[k]; times[k] is what time.time() reads during the *)
(* lookup made for bets[k].                                                *)
(***************************************************************************)
RECURSIVE SimpleEnrichLoop(_, _, _, _, _, _, _, _, _, _)
SimpleEnrichLoop(bets, questions, k, enriched, fetched, cache, file, times, src, scripts) ==
    IF k > Len(bets)
    THEN EnrichOut(FALSE, None, enriched, {}, fetched, cache, file)
    ELSE LET agent_address == bets[k].bettor
         IN Only({
              IF o.raised
              THEN EnrichOut(TRUE, o.exc, <<>>, {},
                             FetchedAfter(fetched, agent_address, o), o.cache,
                             o.file)
              ELSE SimpleEnrichLoop(bets, questions, k + 1,
                       Append(enriched,
                           WithTool(bets[k],
                               ToolFor(questions[k], bets[k].timestamp,
                                       o.result))),
                       FetchedAfter(fetched, agent_address, o), o.cache,
                       o.file, times, src, scripts) :
              o \in {get_mech_requests_cached_simple(cache, file, times[k],
                         src, agent_address, scripts[agent_address])}})

enrich_bets_with_tool_simple(cache, file, times, src, bets, scripts) ==
    SimpleEnrichLoop(bets, [k \in 1..Len(bets) |-> bets[k].question], 1,
                     <<>>, <<>>, cache, file, times, src, scripts)

enrich_bets_with_tool_polymarket(cache, file, times, src, bets, scripts) ==
    SimpleEnrichLoop(bets, [k \in 1..Len(bets) |-> bets[k].question_title],
                     1, <<>>, <<>>, cache, file, times, src, scripts)

\* a clock that does not advance during the run
Frozen(bets, now_) == [k \in 1..Len(bets) |-> now_]

(***************************************************************************)
(* Specification SpecEnrich: one run of the enrichment step of each        *)
(* script, on caches that are cold, stale or fresh, while the network      *)
(* fails for some agents.                                                  *)
(***************************************************************************)
EnrichNow == StartTime + CACHE_TTL_SECONDS + 1

EnrichScripts ==
    {<<>>, <<"ok", "HTTPError">>, <<"Timeout", "Timeout", "Timeout", "Timeout">>}

NonEmptyBetSets == (SUBSET BetWorld0) \ {{}}
OmenBetLists == {FormatAll(OrderAsc(S)) : S \in NonEmptyBetSets}
PolyBetLists ==
    {[k \in 1..Cardinality(S) |-> FormatPolyBet(OrderDesc(S)[k])] :
        S \in NonEmptyBetSets}

Orders(S) ==
    {o \in SeqsUpTo(S, Cardinality(S)) :
        Len(o) = Cardinality(S) /\ Range(o) = S}

\* the caches an earlier run at time t left behind
WarmTimeline(t) ==
    Only({get_mech_requests_cached(c1.cache, c1.file, t, MechWorld0, "a2",
                                   0, <<>>) :
          c1 \in {get_mech_requests_cached(EmptyDict, Missing, t, MechWorld0,
                                           "a1", 0, <<>>)}})
WarmSimple(t) ==
    Only({get_mech_requests_cached_simple(c1.cache, c1.file, t, MechWorld0,
                                          "a2", <<>>) :
          c1 \in {get_mech_requests_cached_simple(EmptyDict, Missing, t,
                                                  MechWorld0, "a1", <<>>)}})

InitEnrich ==
    /\ now = EnrichNow
    /\ calls = 0
    /\ \E t \in {StartTime, EnrichNow} :
          \E tl \in {CallOut(FALSE, None, FALSE, <<>>, <<>>, EmptyDict, Missing),
                     WarmTimeline(t)} :
             \E sm \in {CallOut(FALSE, None, FALSE, <<>>, <<>>, EmptyDict,
                                Missing),
                        WarmSimple(t)} :
                /\ _cache = tl.cache
                /\ cache_file = tl.file
                /\ _mech_cache = sm.cache
                /\ mech_cache_file = sm.file
    /\ mechSrc = MechWorld0
    /\ betSrc = BetWorld0
    /\ pc = "run"
    /\ last = NoCall

EnrichRecord(op, bets, questions, start_ts, scripts, cache, o) ==
    [op |-> op, bets |-> bets, questions |-> questions,
     start_ts |-> start_ts, scripts |-> scripts, at |-> now, cache |-> cache,
     out |-> [raised |-> o.raised, exc |-> o.exc, enriched |-> o.enriched,
              failed_agents |-> o.failed_agents, fetched |-> o.fetched]]

\* tool_accuracy_timeline.py main, step [2/4]
EnrichTimeline ==
    /\ pc = "run"
    /\ \E bets \in OmenBetLists, start_ts \in StartTs,
          scripts \in [Agents -> EnrichScripts] :
          \E order \in Orders(AgentsOf(bets)) :
             LET o == enrich_bets_with_tool(_cache, cache_file, now, mechSrc,
                                            bets, start_ts, order, scripts)
             IN /\ _cache' = o.cache
                /\ cache_file' = o.file
                /\ last' = EnrichRecord("timeline", bets,
                               [k \in 1..Len(bets) |-> bets[k].question],
                               start_ts, scripts, _cache, o)
                /\ pc' = IF o.raised THEN "crashed" ELSE "done"
    /\ UNCHANGED <<timeVars, simpleCacheVars, srcVars>>

\* tool_accuracy.py main: an exception of enrich_bets_with_tool ends the run
EnrichSimple ==
    /\ pc = "run"
    /\ \E bets \in OmenBetLists, scripts \in [Agents -> EnrichScripts] :
          LET o == enrich_bets_with_tool_simple(_mech_cache, mech_cache_file,
                       Frozen(bets, now), mechSrc, bets, scripts)
          IN /\ _mech_cache' = o.cache
             /\ mech_cache_file' = o.file
             /\ last' = EnrichRecord("simple", bets,
                            [k \in 1..Len(bets) |-> bets[k].question],
                            0, scripts, _mech_cache, o)
             /\ pc' = IF o.raised THEN "crashed" ELSE "done"
    /\ UNCHANGED <<timeVars, timelineCacheVars, srcVars>>

\* tool_accuracy_polymarket.py main
EnrichPolymarket ==
    /\ pc = "run"
    /\ \E bets \in PolyBetLists, scripts \in [Agents -> EnrichScripts] :
          LET o == enrich_bets_with_tool_polymarket(_mech_cache,
                       mech_cache_file, Frozen(bets, now), mechSrc, bets,
                       scripts)
          IN /\ _mech_cache' = o.cache
             /\ mech_cache_file' = o.file
             /\ last' = EnrichRecord("polymarket", bets,
                            [k \in 1..Len(bets) |-> bets[k].question_title],
                            0, scripts, _mech_cache, o)
             /\ pc' = IF o.raised THEN "crashed" ELSE "done"
    /\ UNCHANGED <<timeVars, timelineCacheVars, srcVars>>

NextEnrich ==
    \/ EnrichTimeline
    \/ EnrichSimple
    \/ EnrichPolymarket

SpecEnrich == InitEnrich /\ [][NextEnrich]_vars

(***************************************************************************)
(* Claims about enrichment (SpecEnrich)                                    *)
(***************************************************************************)
NetworkExceptions == Transient \cup {"HTTPError", "RuntimeError"}

IsEnrichCall == last.op \in {"timeline", "simple", "polymarket"}

\* the cached lookup the run makes for one agent
LookupFor(agent) ==
    IF last.op = "timeline"
    THEN get_mech_requests_cached(last.cache, Missing, last.at, mechSrc,
                                  agent, last.start_ts, last.scripts[agent])
    ELSE get_mech_requests_cached_simple(last.cache, Missing, last.at,
                                         mechSrc, agent, last.scripts[agent])

\* the agents of the run whose fetch failed
FailedAgents == {a \in AgentsOf(last.bets) : LookupFor(a).raised}

HadCachedRequests(agent) ==
    \E it \in last.cache.items :
        it.key \in {MechKey(agent), SimpleKey(agent)} /\ it.val.payload # <<>>

FailureTolerated ==
    /\ ~last.out.raised
    /\ Len(last.out.enriched) = Len(last.bets)
    /\ \A k \in 1..Len(last.bets) :
          last.out.enriched[k].tool =
              IF last.bets[k].bettor \in FailedAgents THEN "unknown"
              ELSE ToolFor(last.questions[k], last.bets[k].timestamp,
                           LookupFor(last.bets[k].bettor).result)
    /\ last.out.failed_agents = FailedAgents

\* C4: in each script's enrichment, a failure to fetch one agent's mech
\* requests does not abort the run: that agent's bets get tool "unknown"
\* (stale cache entry or not), the other agents' bets are enriched
\* normally, and the failed agents are reported.
C4_FetchFailureTolerated == IsEnrichCall => FailureTolerated

\* C4 case: in tool_accuracy.py one agent's fetch fails while another
\* agent's bets could be enriched; the exception ends the run
C4_SimpleEnrichAborts ==
    /\ last.op = "simple" /\ pc = "crashed"
    /\ last.out.raised /\ last.out.exc \in NetworkExceptions
    /\ FailedAgents # {} /\ FailedAgents # AgentsOf(last.bets)

\* the timeline script alone does tolerate the failure
TimelineFailureTolerated == last.op = "timeline" => FailureTolerated

TimelineFailureWitness ==
    /\ last.op = "timeline" /\ pc = "done"
    /\ \E k \in 1..Len(last.bets) :
          /\ last.bets[k].bettor \in FailedAgents
          /\ HadCachedRequests(last.bets[k].bettor)
          /\ last.out.enriched[k].tool = "unknown"
    /\ \E k \in 1..Len(last.bets) :
          /\ last.bets[k].bettor \notin FailedAgents
          /\ last.out.enriched[k].tool # "unknown"

(***************************************************************************)
(* Specification SpecLoad: a process starts on a backing file in any       *)
(* condition, loads it (_cache = _load_cache() at import) and looks up.    *)
(***************************************************************************)
\* a well-formed file: what an earlier run left behind
EarlierTimelineFile ==
    Only({fetch_bets_in_range(c1.cache, c1.file, StartTime, BetWorld0, 0,
                              MaxTs, <<>>).file :
          c1 \in {get_mech_requests_cached(EmptyDict, Missing, StartTime,
                                           MechWorld0, "a1", 0, <<>>)}})

EarlierSimpleFile ==
    get_mech_requests_cached_simple(EmptyDict, Missing, StartTime, MechWorld0,
                                    "a1", <<>>).file

Item(key, val) == [key |-> key, val |-> val]

\* JSON objects whose entries are not well-formed: a number; {}; an entry
\* without its payload; an entry without fetched_at
MalformedTimelineDocs ==
    {Dict({Item(MechKey("a1"), e)}) :
        e \in {ScalarEntry,
               Entry({}, 0, 0, <<>>),
               Entry({"fetched_at", "fetched_from"}, StartTime, 0, <<>>),
               Entry({"fetched_from", "requests"}, 0, 0, <<>>)}}
    \cup
    {Dict({Item(BetsKey(0, MaxTs), e)}) :
        e \in {ScalarEntry, Entry({"fetched_at"}, StartTime, 0, <<>>),
               Entry({"bets"}, 0, 0, <<>>)}}

MalformedSimpleDocs ==
    {Dict({Item(SimpleKey("a1"), e)}) :
        e \in {ScalarEntry, Entry({"fetched_at"}, StartTime, 0, <<>>),
               Entry({"requests"}, 0, 0, <<>>)}}

BrokenFiles == {Missing, Unreadable, NotUtf8, InvalidJson, JsonText(NotADict)}

TimelineFiles ==
    BrokenFiles \cup {JsonText(d) : d \in MalformedTimelineDocs}
    \cup {EarlierTimelineFile}
SimpleFiles ==
    BrokenFiles \cup {JsonText(d) : d \in MalformedSimpleDocs}
    \cup {EarlierSimpleFile}

InitLoad ==
    /\ now = StartTime
    /\ calls = 0
    /\ _cache = EmptyDict
    /\ _mech_cache = EmptyDict
    /\ \E f \in (TimelineFiles \X {Missing}) \cup ({Missing} \X SimpleFiles) :
          /\ cache_file = f[1]
          /\ mech_cache_file = f[2]
    /\ mechSrc = MechWorld0
    /\ betSrc = BetWorld0
    /\ pc = "start"
    /\ last = NoCall

\* module import: _cache = _load_cache(); an exception ends the process
LoadCache ==
    /\ pc = "start"
    /\ LET t == _load_cache(cache_file)
           m == _load_cache(mech_cache_file)
       IN /\ _cache' = t.cache
          /\ _mech_cache' = m.cache
          /\ pc' = IF t.raised \/ m.raised THEN "crashed" ELSE "run"
    /\ UNCHANGED <<timeVars, cache_file, mech_cache_file, srcVars, last>>

NextLoad ==
    \/ LoadCache
    \/ GetMechRequestsCached
    \/ FetchBetsInRange
    \/ GetMechRequestsCachedSimple

SpecLoad == InitLoad /\ [][NextLoad]_vars

(***************************************************************************)
(* Claims about loading the cache (SpecLoad)                               *)
(***************************************************************************)
RequiredKeys(op) ==
    CASE op = "get_mech_requests_cached" ->
             {"fetched_at", "fetched_from", "requests"}
      [] op = "fetch_bets_in_range" -> {"fetched_at", "bets"}
      [] OTHER -> {"fetched_at", "requests"}

\* the lookup met a cache that is not a dict, or an entry that is not a
\* well-formed entry
MetMalformedCache ==
    /\ IsCachedCall
    /\ \/ ~last.dict
       \/ last.had /\ ~last.pre.is_dict
       \/ last.had /\ ~(RequiredKeys(last.op) \subseteq last.pre.keys)

\* C5: loading never fails the caller: whatever the backing file holds, a
\* lookup that meets anything but a well-formed entry is a miss followed by
\* a normal fetch (it can only fail as a fetch fails).
C5_LoadFailsOpen ==
    MetMalformedCache =>
        /\ last.out.refreshed
        /\ last.out.raised => last.out.exc \in NetworkExceptions

\* C5 case: the file holds valid JSON that is not an object; the first
\* lookup raises AttributeError
C5_NonObjectFileFailsLookup ==
    /\ pc = "run" /\ IsCachedCall /\ ~last.dict
    /\ last.out.raised /\ last.out.exc = "AttributeError"
    /\ ~last.out.refreshed

(***************************************************************************)
(* Specification SpecRun: one run of the enrichment step while the clock   *)
(* advances between the lookups of the per-bet scripts.                    *)
(***************************************************************************)
\* what time.time() may read during a run: the start, and the instants one
\* MECH_CACHE_TTL_SECONDS and one second more after it
ClockReadings ==
    {EnrichNow, EnrichNow + MECH_CACHE_TTL_SECONDS,
     EnrichNow + MECH_CACHE_TTL_SECONDS + 1}

\* the clock readings of n successive lookups
Clocks(n) ==
    {t \in [1..n -> ClockReadings] : \A k \in 1..(n - 1) : t[k] <= t[k + 1]}

RunRecord(op, bets, questions, times, scripts, cache, o) ==
    [op |-> op, bets |-> bets, questions |-> questions, start_ts |-> 0,
     scripts |-> scripts, at |-> times[1], times |-> times, cache |-> cache,
     out |-> [raised |-> o.raised, exc |-> o.exc, enriched |-> o.enriched,
              failed_agents |-> o.failed_agents, fetched |-> o.fetched]]

\* tool_accuracy_timeline.py main, step [2/4]
RunTimeline ==
    /\ pc = "run"
    /\ \E bets \in OmenBetLists, start_ts \in StartTs,
          scripts \in [Agents -> EnrichScripts] :
          \E order \in Orders(AgentsOf(bets)) :
             LET o == enrich_bets_with_tool(_cache, cache_file, now, mechSrc,
                                            bets, start_ts, order, scripts)
             IN /\ _cache' = o.cache
                /\ cache_file' = o.file
                /\ last' = [RunRecord("timeline", bets,
                               [k \in 1..Len(bets) |-> bets[k].question],
                               Frozen(bets, now), scripts, _cache, o)
                            EXCEPT !.start_ts = start_ts]
                /\ pc' = IF o.raised THEN "crashed" ELSE "done"
    /\ UNCHANGED <<timeVars, simpleCacheVars, srcVars>>

\* tool_accuracy.py main
RunSimple ==
    /\ pc = "run"
    /\ \E bets \in OmenBetLists, scripts \in [Agents -> EnrichScripts] :
          \E times \in Clocks(Len(bets)) :
             LET o == enrich_bets_with_tool_simple(_mech_cache,
                          mech_cache_file, times, mechSrc, bets, scripts)
             IN /\ _mech_cache' = o.cache
                /\ mech_cache_file' = o.file
                /\ last' = RunRecord("simple", bets,
                               [k \in 1..Len(bets) |-> bets[k].question],
                               times, scripts, _mech_cache, o)
                /\ now' = times[Len(bets)]
                /\ pc' = IF o.raised THEN "crashed" ELSE "done"
    /\ UNCHANGED <<calls, timelineCacheVars, srcVars>>

\* tool_accuracy_polymarket.py main
RunPolymarket ==
    /\ pc = "run"
    /\ \E bets \in PolyBetLists, scripts \in [Agents -> EnrichScripts] :
          \E times \in Clocks(Len(bets)) :
             LET o == enrich_bets_with_tool_polymarket(_mech_cache,
                          mech_cache_file, times, mechSrc, bets, scripts)
             IN /\ _mech_cache' = o.cache
                /\ mech_cache_file' = o.file
                /\ last' = RunRecord("polymarket", bets,
                               [k \in 1..Len(bets) |-> bets[k].question_title],
                               times, scripts, _mech_cache, o)
                /\ now' = times[Len(bets)]
                /\ pc' = IF o.raised THEN "crashed" ELSE "done"
    /\ UNCHANGED <<calls, timelineCacheVars, srcVars>>

NextRun ==
    \/ RunTimeline
    \/ RunSimple
    \/ RunPolymarket

SpecRun == InitEnrich /\ [][NextRun]_vars

(***************************************************************************)
(* Claims about the number of fetches of a run (SpecRun)                   *)
(***************************************************************************)
FetchCount(agent) ==
    Cardinality({k \in 1..Len(last.out.fetched) : last.out.fetched[k] = agent})

\* C11: in one run of the enricher the paginated fetch of an agent's mech
\* requests is started at most once for each distinct bettor among the
\* bets, so there are at most as many fetches as unique agents; in the
\* timeline script and in the per-bet scripts.
C11_OneFetchPerAgent ==
    IsEnrichCall =>
        /\ \A a \in Agents : FetchCount(a) <= 1
        /\ Len(last.out.fetched) <= Cardinality(AgentsOf(last.bets))

\* C11 case: tool_accuracy.py fetches the same agent for two of its bets,
\* the clock having advanced by more than MECH_CACHE_TTL_SECONDS in between
C11_AgentFetchedTwice ==
    /\ last.op = "simple"
    /\ \E a \in Agents : FetchCount(a) = 2
    /\ last.times[Len(last.bets)] - last.times[1] > MECH_CACHE_TTL_SECONDS

\* the timeline script fetches each agent at most once
TimelineOneFetchPerAgent ==
    last.op = "timeline" =>
        /\ \A a \in Agents : FetchCount(a) <= 1
        /\ Len(last.out.fetched) <= Cardinality(AgentsOf(last.bets))

\* the per-bet scripts fetch each agent at most once while the clock does
\* not advance by more than the TTL during the run
OneFetchPerAgentWithinTtl ==
    (IsEnrichCall /\ last.times[Len(last.bets)] - last.times[1]
                        <= MECH_CACHE_TTL_SECONDS) =>
        \A a \in Agents : FetchCount(a) <= 1

(***************************************************************************)
(* Specification SpecMatch: the matcher and the loop body of the enricher  *)
(* applied to every small bet and list of mech requests.                   *)
(***************************************************************************)
MaxQuestionLen == 3
MaxTitleLen == 2
MaxRequests == 3

Chars == {"a", "b", " ", QUESTION_DATA_SEPARATOR}
Questions == SeqsUpTo(Chars, MaxQuestionLen)
MechTitles == SeqsUpTo(Chars, MaxTitleLen)

\* the requests offered to the matcher: any title, or parsedRequest null
TitledRequests ==
    {Req(0, t, "A") : t \in MechTitles} \cup {ReqUnparsed(0)}

CallMatch ==
    /\ pc = "idle"
    /\ \E question \in Questions,
          mech_requests \in SeqsUpTo(TitledRequests, 2) :
          last' = [op |-> "match_bet_to_mech_request",
                   question |-> question, mech_requests |-> mech_requests,
                   out |-> match_bet_to_mech_request(question, mech_requests)]
    /\ pc' = "done"
    /\ UNCHANGED stateVars

\* the requests offered to the loop body: request k carries the tool
\* "T<k>" or none, a title the bet matches ("a") or not ("b")
TsChoices == {100, 200, 300}
BetTsChoices == {50, 250, 300}
ToolAt(k) == "T" \o ToString(k)

RECURSIVE CandidateLists(_)
CandidateLists(n) ==
    IF n = 0 THEN {<<>>}
    ELSE CandidateLists(n - 1) \cup
         {Append(l, Req(ts, <<title>>, tool)) :
             l \in {c \in CandidateLists(n - 1) : Len(c) = n - 1},
             ts \in TsChoices, title \in {"a", "b"},
             tool \in {ToolAt(n), None}}

CallEnrichOne ==
    /\ pc = "idle"
    /\ \E bet_ts \in BetTsChoices,
          mech_requests \in CandidateLists(MaxRequests) :
          LET matches == match_bet_to_mech_request(<<"a">>, mech_requests)
          IN last' = [op |-> "enrich_one", question |-> <<"a">>,
                      bet_ts |-> bet_ts, mech_requests |-> mech_requests,
                      matches |-> matches,
                      chosen |-> IF matches = <<>> THEN <<>>
                                 ELSE <<Chosen(matches, bet_ts)>>,
                      tool |-> ToolFor(<<"a">>, bet_ts, mech_requests)]
    /\ pc' = "done"
    /\ UNCHANGED stateVars

NextMatch ==
    \/ CallMatch
    \/ CallEnrichOne

SpecMatch == InitFixed /\ [][NextMatch]_vars

(***************************************************************************)
(* Claims about matching (SpecMatch)                                       *)
(***************************************************************************)
IsMatchCall == last.op = "match_bet_to_mech_request"

\* the text before the first separator
BeforeSeparator(text) ==
    LET seps == {i \in 1..Len(text) : text[i] = QUESTION_DATA_SEPARATOR}
    IN IF seps = {} THEN text
       ELSE SubSeq(text, 1, (CHOOSE i \in seps : \A j \in seps : i <= j) - 1)

\* a text without its leading and trailing blanks
Trimmed(text) ==
    LET inked == {i \in 1..Len(text) : text[i] # " "}
    IN IF inked = {} THEN <<>>
       ELSE SubSeq(text, CHOOSE i \in inked : \A j \in inked : i <= j,
                   CHOOSE i \in inked : \A j \in inked : i >= j)

TitleOf(text) == Trimmed(BeforeSeparator(text))

IsPrefix(a, b) == \E n \in 0..Len(b) : a = SubSeq(b, 1, n)

\* two titles match: both non-empty and one a prefix of the other
TitlesAgree(a, b) ==
    /\ a # <<>> /\ b # <<>>
    /\ IsPrefix(a, b) \/ IsPrefix(b, a)

\* the subsequence of s at the indices idx, in order
Pick(s, idx) ==
    [j \in 1..Cardinality(idx) |->
        s[CHOOSE k \in idx : Cardinality({i \in idx : i <= k}) = j]]

RequestAgrees(question, req) ==
    TitlesAgree(TitleOf(question), TitleOf(QuestionTitleOf(req)))

\* C12: match_bet_to_mech_request returns, in input order, exactly the
\* requests whose title (text before the separator, trimmed) and the bet's
\* title are non-empty and one a prefix of the other; whether two texts
\* match does not depend on which is the bet's and which the request's.
C12_MatchIsSymmetricPrefix ==
    IsMatchCall =>
        /\ last.out =
              Pick(last.mech_requests,
                   {k \in 1..Len(last.mech_requests) :
                       RequestAgrees(last.question, last.mech_requests[k])})
        /\ \A k \in 1..Len(last.mech_requests) :
              LET req == last.mech_requests[k]
                  swapped == match_bet_to_mech_request(QuestionTitleOf(req),
                                 <<Req(0, last.question, "A")>>)
              IN (swapped # <<>>) <=>
                     (match_bet_to_mech_request(last.question, <<req>>) # <<>>)

\* C12 witness: a blank-padded request title that is shorter than the bet's
\* title, which stops at a separator, is matched after a request that is not
C12_Witness ==
    /\ IsMatchCall /\ Len(last.mech_requests) = 2
    /\ last.out = <<last.mech_requests[2]>>
    /\ QUESTION_DATA_SEPARATOR \in Range(last.question)
    /\ Len(TitleOf(last.question))
          > Len(TitleOf(QuestionTitleOf(last.mech_requests[2])))
    /\ Head(QuestionTitleOf(last.mech_requests[2])) = " "

IsEnrichOne == last.op = "enrich_one"

\* the matches made no later than the bet
NotAfterBet == {k \in 1..Len(last.matches) :
                   last.matches[k].blockTimestamp <= last.bet_ts}

\* C13: among several matches the chosen request is one of greatest
\* blockTimestamp among those with blockTimestamp <= the bet's timestamp;
\* if there is none, it is the first match in input order.
C13_LatestNotAfterBet ==
    (IsEnrichOne /\ last.matches # <<>>) =>
        IF NotAfterBet # {}
        THEN \E k \in NotAfterBet :
                /\ last.chosen = <<last.matches[k]>>
                /\ \A j \in NotAfterBet :
                      last.matches[j].blockTimestamp
                          <= last.matches[k].blockTimestamp
        ELSE last.chosen = <<last.matches[1]>>

\* C13 witness: candidates at 100, 200, 300 and a bet at 250: the request
\* at 200 is chosen
C13_Witness ==
    /\ IsEnrichOne /\ last.bet_ts = 250
    /\ [k \in 1..Len(last.matches) |-> last.matches[k].blockTimestamp]
          = <<100, 200, 300>>
    /\ last.chosen = <<last.matches[2]>>

\* C13 witness: every match is later than the bet: the first one is chosen
\* although it is not the earliest
C13_WitnessFallback ==
    /\ IsEnrichOne /\ Len(last.matches) >= 2 /\ NotAfterBet = {}
    /\ last.matches[2].blockTimestamp < last.matches[1].blockTimestamp
    /\ last.chosen = <<last.matches[1]>>

(***************************************************************************)
(* Claims about the enriched bets (SpecEnrich)                             *)
(***************************************************************************)
\* the request list the run holds for an agent
RequestsUsedFor(agent) ==
    IF agent \in FailedAgents THEN <<>> ELSE LookupFor(agent).result

MatchesOf(question, requests) ==
    Pick(requests,
         {k \in 1..Len(requests) : RequestAgrees(question, requests[k])})

\* index of the request to choose: the first of greatest blockTimestamp
\* among those not later than the bet, else the first
ChoiceIndex(matches, bet_ts) ==
    LET early == {k \in 1..Len(matches) :
                     matches[k].blockTimestamp <= bet_ts}
        latest == {k \in early :
                      \A j \in early : matches[j].blockTimestamp
                                          <= matches[k].blockTimestamp}
    IN IF early = {} THEN 1
       ELSE CHOOSE k \in latest : \A j \in latest : k <= j

HasTool(req) == req.parsedRequest.present /\ req.parsedRequest.tool # None

ExpectedTool(question, bet_ts, requests) ==
    LET matches == MatchesOf(question, requests)
    IN IF matches = <<>> THEN "unknown"
       ELSE IF HasTool(matches[ChoiceIndex(matches, bet_ts)])
       THEN matches[ChoiceIndex(matches, bet_ts)].parsedRequest.tool
       ELSE "unknown"

\* C14: a run of the enricher that returns emits for every input bet, in
\* order, the bet with one added field tool: the chosen request's tool, or
\* "unknown" when nothing matched or the chosen request has no tool.
C14_OneToolPerBet ==
    (IsEnrichCall /\ ~last.out.raised) =>
        /\ Len(last.out.enriched) = Len(last.bets)
        /\ \A k \in 1..Len(last.bets) :
              LET e == last.out.enriched[k]
                  b == last.bets[k]
              IN /\ DOMAIN e = DOMAIN b \cup {"tool"}
                 /\ \A f \in DOMAIN b : e[f] = b[f]
                 /\ e.tool = ExpectedTool(last.questions[k], b.timestamp,
                                          RequestsUsedFor(b.bettor))

\* C14 witness: two bets enriched, one with its chosen request's tool, one
\* "unknown" because the chosen request has no tool although another match
\* has one
C14_Witness ==
    /\ IsEnrichCall /\ ~last.out.raised /\ Len(last.bets) >= 2
    /\ \E k \in 1..Len(last.bets) :
          last.out.enriched[k].tool \notin {"unknown", None}
    /\ \E k \in 1..Len(last.bets) :
          LET matches == MatchesOf(last.questions[k],
                             RequestsUsedFor(last.bets[k].bettor))
          IN /\ last.out.enriched[k].tool = "unknown"
             /\ \E j \in 1..Len(matches) : HasTool(matches[j])

\* the matches of bet k that share the greatest blockTimestamp not later
\* than the bet
TiedLatest(k) ==
    LET matches == MatchesOf(last.questions[k],
                             RequestsUsedFor(last.bets[k].bettor))
        early == {j \in 1..Len(matches) :
                     matches[j].blockTimestamp <= last.bets[k].timestamp}
    IN {matches[j] : j \in {i \in early :
                               \A h \in early : matches[h].blockTimestamp
                                                   <= matches[i].blockTimestamp}}

\* C15: enrichment is deterministic: the tools assigned are a function of
\* the bets and of the per-agent request lists.  A run of the timeline
\* script gives the same enriched bets in whatever order its agents are
\* fetched, and among matches that share the greatest blockTimestamp the
\* first in input order decides.
C15_Deterministic ==
    /\ last.op = "timeline" =>
          \A order \in Orders(AgentsOf(last.bets)) :
             enrich_bets_with_tool(last.cache, Missing, last.at, mechSrc,
                                   last.bets, last.start_ts, order,
                                   last.scripts).enriched
                = last.out.enriched
    /\ (IsEnrichCall /\ ~last.out.raised) =>
          \A k \in 1..Len(last.bets) :
             last.out.enriched[k].tool =
                 ExpectedTool(last.questions[k], last.bets[k].timestamp,
                              RequestsUsedFor(last.bets[k].bettor))

\* C15 witness: a timeline run over two agents, one of them failing, with a
\* bet whose matches tie at the greatest blockTimestamp with different tools
C15_Witness ==
    /\ last.op = "timeline" /\ Cardinality(AgentsOf(last.bets)) = 2
    /\ Cardinality(FailedAgents) = 1
    /\ \E k \in 1..Len(last.bets) :
          /\ Cardinality(TiedLatest(k)) >= 2
          /\ \E r1, r2 \in TiedLatest(k) :
                ToolOrUnknown(r1) # ToolOrUnknown(r2)

(***************************************************************************)
(* Aggregation: compute_tool_accuracy / compute_overall_stats.  An         *)
(* accuracy is held in tenths of a percent (333 is 33.3).                  *)
(***************************************************************************)
\* the keys of totals, in insertion order
RECURSIVE ToolsInOrder(_, _, _)
ToolsInOrder(enriched_bets, k, seen) ==
    IF k > Len(enriched_bets) THEN seen
    ELSE IF enriched_bets[k].tool \in Range(seen)
    THEN ToolsInOrder(enriched_bets, k + 1, seen)
    ELSE ToolsInOrder(enriched_bets, k + 1, Append(seen, enriched_bets[k].tool))

\* totals[tool], corrects[tool]
Totals(enriched_bets, tool) ==
    Cardinality({k \in 1..Len(enriched_bets) : enriched_bets[k].tool = tool})
Corrects(enriched_bets, tool) ==
    Cardinality({k \in 1..Len(enriched_bets) :
                    enriched_bets[k].tool = tool /\ enriched_bets[k].is_correct})

RoundDown(correct, total) == (1000 * correct) \div total
\* round(correct / total * 100, 1): to the nearest tenth, an exact half to
\* the even tenth
RoundTenths(correct, total) ==
    LET q == (1000 * correct) \div total
        r == (1000 * correct) % total
    IN IF 2 * r > total \/ (2 * r = total /\ q % 2 = 1) THEN q + 1 ELSE q

StatRow(enriched_bets, tool) ==
    [tool |-> tool, total |-> Totals(enriched_bets, tool),
     correct |-> Corrects(enriched_bets, tool),
     accuracy |-> IF Totals(enriched_bets, tool) > 0
                  THEN RoundTenths(Corrects(enriched_bets, tool),
                                   Totals(enriched_bets, tool))
                  ELSE 0]

\* stats, in the order of totals.items()
StatRows(enriched_bets) ==
    LET tools == ToolsInOrder(enriched_bets, 1, <<>>)
    IN [k \in 1..Len(tools) |-> StatRow(enriched_bets, tools[k])]

Without(s, i) == SubSeq(s, 1, i - 1) \o SubSeq(s, i + 1, Len(s))

LastGreatest(stats) ==
    CHOOSE i \in 1..Len(stats) :
        \A j \in 1..Len(stats) :
            /\ stats[j].total <= stats[i].total
            /\ j > i => stats[j].total < stats[i].total
\* the row sorted() puts first under key total, reverse=True: the first of
\* greatest total (the sort is stable)
FirstGreatest(stats) ==
    CHOOSE i \in 1..Len(stats) :
        \A j \in 1..Len(stats) :
            /\ stats[j].total <= stats[i].total
            /\ j < i => stats[j].total < stats[i].total

\* sorted(stats, key=lambda x: x["total"], reverse=True)
RECURSIVE SortedByTotalDesc(_)
SortedByTotalDesc(stats) ==
    IF stats = <<>> THEN <<>>
    ELSE <<stats[FirstGreatest(stats)]>>
         \o SortedByTotalDesc(Without(stats, FirstGreatest(stats)))

compute_tool_accuracy(enriched_bets) ==
    SortedByTotalDesc(StatRows(enriched_bets))

compute_overall_stats(enriched_bets) ==
    SortedByTotalDesc(StatRows(enriched_bets))

(***************************************************************************)
(* Specification SpecStats: the aggregators applied to every short list of *)
(* enriched bets.                                                          *)
(***************************************************************************)
MaxStatBets == 4

StatTools == {"A", "B", "unknown"}
\* an enriched bet, as far as the aggregators read it
StatBets == [tool : StatTools, is_correct : BOOLEAN]

CallComputeToolAccuracy ==
    /\ pc = "idle"
    /\ \E enriched_bets \in SeqsUpTo(StatBets, MaxStatBets) :
          last' = [op |-> "compute_tool_accuracy",
                   enriched_bets |-> enriched_bets,
                   out |-> compute_tool_accuracy(enriched_bets)]
    /\ pc' = "done"
    /\ UNCHANGED stateVars

CallComputeOverallStats ==
    /\ pc = "idle"
    /\ \E enriched_bets \in SeqsUpTo(StatBets, MaxStatBets) :
          last' = [op |-> "compute_overall_stats",
                   enriched_bets |-> enriched_bets,
                   out |-> compute_overall_stats(enriched_bets)]
    /\ pc' = "done"
    /\ UNCHANGED stateVars

NextStats ==
    \/ CallComputeToolAccuracy
    \/ CallComputeOverallStats

SpecStats == InitFixed /\ [][NextStats]_vars

(***************************************************************************)
(* Claims about aggregation (SpecStats)                                    *)
(***************************************************************************)
IsStatsCall == last.op \in {"compute_tool_accuracy", "compute_overall_stats"}

BetsWithTool(tool) ==
    {k \in 1..Len(last.enriched_bets) : last.enriched_bets[k].tool = tool}

RECURSIVE SumTotals(_)
SumTotals(rows) ==
    IF rows = <<>> THEN 0 ELSE Head(rows).total + SumTotals(Tail(rows))

\* twice the distance of an accuracy (in tenths) from 100 * correct / total,
\* in units of 1 / (10 * total)
TwiceRoundingError(row) ==
    IF row.accuracy * row.total >= 1000 * row.correct
    THEN 2 * (row.accuracy * row.total - 1000 * row.correct)
    ELSE 2 * (1000 * row.correct - row.accuracy * row.total)

\* C16: the aggregator emits one row per distinct tool among the enriched
\* bets ("unknown" included); total counts the bets of the tool, correct
\* those of them that are correct, 1 <= total, correct <= total, the totals
\* sum to the number of bets, and accuracy is 100 * correct / total rounded
\* to one decimal.
C16_RowPerTool ==
    IsStatsCall =>
        /\ {last.out[i].tool : i \in 1..Len(last.out)}
              = {last.enriched_bets[k].tool : k \in 1..Len(last.enriched_bets)}
        /\ \A i, j \in 1..Len(last.out) :
              last.out[i].tool = last.out[j].tool => i = j
        /\ \A i \in 1..Len(last.out) :
              LET row == last.out[i]
              IN /\ row.total = Cardinality(BetsWithTool(row.tool))
                 /\ row.correct =
                       Cardinality({k \in BetsWithTool(row.tool) :
                                       last.enriched_bets[k].is_correct})
                 /\ 1 <= row.total /\ row.correct <= row.total
                 /\ TwiceRoundingError(row) <= row.total
        /\ SumTotals(last.out) = Len(last.enriched_bets)

\* C16 witness: rows for a tool and for "unknown", with accuracies 66.7 and
\* 0.0
C16_Witness ==
    /\ IsStatsCall /\ Len(last.out) = 2
    /\ \E i \in 1..2 :
          /\ last.out[i].tool = "A" /\ last.out[i].total = 3
          /\ last.out[i].correct = 2 /\ last.out[i].accuracy = 667
    /\ \E i \in 1..2 :
          /\ last.out[i].tool = "unknown" /\ last.out[i].accuracy = 0

FirstSeenAt(tool) == CHOOSE k \in BetsWithTool(tool) :
                         \A j \in BetsWithTool(tool) : k <= j

\* C17: the rows are ordered by total descending, and rows of equal total
\* appear in the order in which their tools were first seen in the input.
C17_SortedByTotalStable ==
    IsStatsCall =>
        \A i, j \in 1..Len(last.out) :
            i < j =>
                /\ last.out[i].total >= last.out[j].total
                /\ last.out[i].total = last.out[j].total =>
                      FirstSeenAt(last.out[i].tool)
                          < FirstSeenAt(last.out[j].tool)

\* C17 witness: the tool seen last has the greatest total and comes first;
\* the two tools of equal total follow in first-seen order
C17_Witness ==
    /\ IsStatsCall /\ Len(last.out) = 3
    /\ last.enriched_bets[1].tool = last.out[2].tool
    /\ last.enriched_bets[2].tool = last.out[3].tool
    /\ last.out[1].total = 2
    /\ last.out[2].total = 1 /\ last.out[3].total = 1

(***************************************************************************)
(* Binning (tool_accuracy_timeline.py)                                     *)
(***************************************************************************)
SECONDS_PER_DAY == 86400

\* datetime.fromtimestamp(ts, tz=utc).replace(hour=0, minute=0, second=0,
\* microsecond=0), as a timestamp
Midnight(ts) == ts - (ts % SECONDS_PER_DAY)

\* step_days, with the threshold one second short (alternative)
StepDaysBelow30(start_ts, end_ts) ==
    IF end_ts - start_ts < 30 * SECONDS_PER_DAY THEN 1 ELSE 7

\* span_days = (end_ts - start_ts) / 86400; 1 if span_days <= 30 else 7
StepDays(start_ts, end_ts) ==
    IF end_ts - start_ts <= 30 * SECONDS_PER_DAY THEN 1 ELSE 7

\* while cursor <= end_dt: edges.append(cursor); cursor += step
RECURSIVE EdgesFrom(_, _, _)
EdgesFrom(cursor, end_ts, step) ==
    IF cursor <= end_ts
    THEN <<cursor>> \o EdgesFrom(cursor + step, end_ts, step)
    ELSE <<>>

_bin_edges(start_ts, end_ts) ==
    LET edges == EdgesFrom(Midnight(start_ts), end_ts,
                           StepDays(start_ts, end_ts) * SECONDS_PER_DAY)
    IN IF edges = <<>> \/ edges[Len(edges)] < end_ts
       THEN Append(edges, end_ts + 1)
       ELSE edges

\* the first bin i (counted from 1) with edges[i] <= ts < edges[i + 1];
\* 0 stands for bin_idx = None
RECURSIVE BinIndexFrom(_, _, _)
BinIndexFrom(edges, ts, i) ==
    IF i > Len(edges) - 1 THEN 0
    ELSE IF edges[i] <= ts /\ ts < edges[i + 1] THEN i
    ELSE BinIndexFrom(edges, ts, i + 1)

BinIndex(edges, ts) == BinIndexFrom(edges, ts, 1)

\* the bets counted in bin i: those with a bin index, grouped by it
BetsOfBin(enriched_bets, edges, i) ==
    SelectSeq(enriched_bets, LAMBDA bet : BinIndex(edges, bet.timestamp) = i)

CountTool(bets, tool, only_correct) ==
    Len(SelectSeq(bets, LAMBDA bet :
                      bet.tool = tool /\ (only_correct => bet.is_correct)))

CountKnown(bets, only_correct) ==
    Len(SelectSeq(bets, LAMBDA bet :
                      bet.tool # "unknown" /\ (only_correct => bet.is_correct)))

\* an accuracy of 0.0 where there is no bet (alternative)
AccuracyOrZero(correct, total) ==
    IF total > 0 THEN <<RoundTenths(correct, total)>> ELSE <<0>>

\* round(correct / total * 100, 1) if total > 0 else None; <<>> stands for
\* None and <<a>> for the accuracy a (in tenths of a percent)
AccuracyOrNone(correct, total) ==
    IF total > 0 THEN <<RoundTenths(correct, total)>> ELSE <<>>

bin_bets(enriched_bets, start_ts, end_ts) ==
    LET edges == _bin_edges(start_ts, end_ts)
        n_bins == Len(edges) - 1
        binned == [i \in 1..n_bins |-> BetsOfBin(enriched_bets, edges, i)]
        all_tools == UNION {{binned[i][k].tool : k \in 1..Len(binned[i])} :
                               i \in 1..n_bins}
    IN [edges |-> edges,
        bin_labels |-> [i \in 1..n_bins |-> edges[i]],
        bin_totals |-> [i \in 1..n_bins |->
                           [tool \in all_tools |->
                               CountTool(binned[i], tool, FALSE)]],
        bin_corrects |-> [i \in 1..n_bins |->
                             [tool \in all_tools |->
                                 CountTool(binned[i], tool, TRUE)]],
        tool_series |-> [tool \in all_tools |->
                            [i \in 1..n_bins |->
                                AccuracyOrNone(CountTool(binned[i], tool, TRUE),
                                               CountTool(binned[i], tool, FALSE))]],
        overall_series |-> [i \in 1..n_bins |->
                               AccuracyOrNone(CountKnown(binned[i], TRUE),
                                              CountKnown(binned[i], FALSE))]]

(***************************************************************************)
(* Specification SpecBins: bin_bets applied to windows on both sides of    *)
(* the 30-day threshold, starting on and off midnight and ending on and    *)
(* off a day boundary, with the bets the window's query can return.        *)
(***************************************************************************)
MaxBinBets == 2

\* 2024-01-01 00:00:00 UTC, a Monday
Jan1 == 19723 * SECONDS_PER_DAY

BinStarts == {Jan1, Jan1 + 2 * 3600}

\* the spans end_ts - start_ts of the windows
BinSpans ==
    {1, SECONDS_PER_DAY - 1, SECONDS_PER_DAY,
     20 * SECONDS_PER_DAY, 30 * SECONDS_PER_DAY, 30 * SECONDS_PER_DAY + 1,
     42 * SECONDS_PER_DAY, 45 * SECONDS_PER_DAY}

\* timestamp_gte: start_ts, timestamp_lte: end_ts
BinBetTimes(start_ts, end_ts) ==
    {t \in {start_ts, end_ts, end_ts - 1,
            Midnight(start_ts) + SECONDS_PER_DAY,
            Midnight(start_ts) + 7 * SECONDS_PER_DAY} :
        start_ts <= t /\ t <= end_ts}

BinBets(start_ts, end_ts) ==
    [timestamp : BinBetTimes(start_ts, end_ts),
     tool : {"A", "unknown"}, is_correct : BOOLEAN]

CallBinBets ==
    /\ pc = "idle"
    /\ \E start_ts \in BinStarts, span \in BinSpans :
          \E enriched_bets \in
                 SeqsUpTo(BinBets(start_ts, start_ts + span), MaxBinBets) :
              last' = [op |-> "bin_bets",
                       enriched_bets |-> enriched_bets,
                       start_ts |-> start_ts,
                       end_ts |-> start_ts + span,
                       out |-> bin_bets(enriched_bets, start_ts,
                                        start_ts + span)]
    /\ pc' = "done"
    /\ UNCHANGED stateVars

NextBins == CallBinBets

SpecBins == InitFixed /\ [][NextBins]_vars

(***************************************************************************)
(* Claims about binning (SpecBins)                                         *)
(***************************************************************************)
IsBinCall == last.op = "bin_bets"

\* the bins [edge_i, edge_i+1) that hold timestamp t
BinsHolding(edges, t) ==
    {i \in 1..(Len(edges) - 1) : edges[i] <= t /\ t < edges[i + 1]}

RECURSIVE SumOver(_, _)
SumOver(f, S) ==
    IF S = {} THEN 0
    ELSE LET x == CHOOSE y \in S : TRUE IN f[x] + SumOver(f, S \ {x})

\* the number of bets counted over all bins and tools
CountedBets ==
    SumOver([i \in DOMAIN last.out.bin_totals |->
                SumOver(last.out.bin_totals[i],
                        DOMAIN last.out.bin_totals[i])],
            DOMAIN last.out.bin_totals)

EdgesIncrease ==
    \A i \in 1..(Len(last.out.edges) - 1) :
        last.out.edges[i] < last.out.edges[i + 1]

\* C18: for any window start_ts < end_ts the bin edges are strictly
\* increasing, the bins [edge_i, edge_i+1) are contiguous and half-open, and
\* every bet with start_ts <= t <= end_ts is counted in exactly one bin (none
\* dropped, none counted twice), also a bet at t = end_ts when end_ts falls
\* on a bin boundary.
C18_EveryBetInOneBin ==
    IsBinCall =>
        /\ last.start_ts < last.end_ts
        /\ EdgesIncrease
        /\ \A k \in 1..Len(last.enriched_bets) :
              Cardinality(BinsHolding(last.out.edges,
                                      last.enriched_bets[k].timestamp)) = 1
        /\ \A i \in DOMAIN last.out.bin_totals :
              \A tool \in DOMAIN last.out.bin_totals[i] :
                  last.out.bin_totals[i][tool] =
                      Cardinality({k \in 1..Len(last.enriched_bets) :
                          /\ last.enriched_bets[k].tool = tool
                          /\ i \in BinsHolding(last.out.edges,
                                     last.enriched_bets[k].timestamp)})
        /\ CountedBets = Len(last.enriched_bets)

\* C18, the failing case: end_ts is the last edge and a bet at t = end_ts is
\* in no bin and in no count
C18_BetAtEndDropped ==
    /\ IsBinCall
    /\ last.out.edges[Len(last.out.edges)] = last.end_ts
    /\ Len(last.enriched_bets) = 2
    /\ last.enriched_bets[1].timestamp = last.start_ts
    /\ last.enriched_bets[2].timestamp = last.end_ts
    /\ BinsHolding(last.out.edges, last.end_ts) = {}
    /\ CountedBets = 1

\* what does hold: whenever end_ts is not itself an edge (as for every
\* window of _parse_args, which ends at 23:59:59), the statement of C18
BinsCoverOffBoundary ==
    (IsBinCall /\ last.out.edges[Len(last.out.edges)] # last.end_ts)
        => C18_EveryBetInOneBin

Gap(i) == last.out.edges[i + 1] - last.out.edges[i]

HasClosingEdge == last.out.edges[Len(last.out.edges)] = last.end_ts + 1

\* C19: consecutive edges are 86400 s apart (the closing edge excepted) when
\* end_ts - start_ts is at most 30 days, and 7 * 86400 s apart otherwise; a
\* 20-day window gives daily bins and a 45-day window weekly bins.
C19_DailyUpTo30Days ==
    IsBinCall =>
        /\ Len(last.out.edges) >= 2
        /\ \A i \in 1..(Len(last.out.edges) - 1) :
              (i + 1 < Len(last.out.edges) \/ ~HasClosingEdge) =>
                  Gap(i) = IF last.end_ts - last.start_ts <= 30 * 86400
                           THEN 86400 ELSE 7 * 86400
        /\ HasClosingEdge =>
              Gap(Len(last.out.edges) - 1)
                  <= IF last.end_ts - last.start_ts <= 30 * 86400
                     THEN 86400 ELSE 7 * 86400

\* C19 witness: a 45-day window off midnight, cut into six full weeks and a
\* closing bin
C19_Witness ==
    /\ IsBinCall
    /\ last.end_ts - last.start_ts = 45 * 86400
    /\ last.start_ts # Midnight(last.start_ts)
    /\ Len(last.out.edges) = 8
    /\ \A i \in 1..6 : Gap(i) = 7 * 86400
    /\ HasClosingEdge

\* a 20-day window cut into days
C19_WitnessDaily ==
    /\ IsBinCall
    /\ last.end_ts - last.start_ts = 20 * 86400
    /\ Len(last.out.edges) >= 21
    /\ \A i \in 1..20 : Gap(i) = 86400

\* a window of exactly 30 days is still cut into days
C19_WitnessThreshold ==
    /\ IsBinCall
    /\ last.end_ts - last.start_ts = 30 * 86400
    /\ Gap(1) = 86400

(***************************************************************************)
(* Specification SpecWeekly: successive runs of _bin_edges on the windows  *)
(* _parse_args builds (--start/--end dates, or --period Nd counted back    *)
(* from the clock, each ending at 23:59:59 UTC), the later call keeping    *)
(* the earlier one's window and edges for comparison.                      *)
(***************************************************************************)
MaxEdgeCalls == 2

\* start_ts: 00:00:00 of the --start date (each weekday of one week), or
\* now - days * 86400 for --period
WeeklyStarts ==
    {Jan1 + d * SECONDS_PER_DAY : d \in 0..6} \cup {Jan1 + 2 * 3600}

\* the days from the start date to the end date, both included
WindowDays == {20, 45}

\* end_ts: 23:59:59 of the end date
EndOfDay(start_ts, days) ==
    Midnight(start_ts) + days * SECONDS_PER_DAY - 1

EdgesRecord(start_ts, end_ts) ==
    [op |-> "_bin_edges", start_ts |-> start_ts, end_ts |-> end_ts,
     out |-> _bin_edges(start_ts, end_ts)]

CallBinEdges ==
    /\ pc = "idle"
    /\ calls < MaxEdgeCalls
    /\ \E start_ts \in WeeklyStarts, days \in WindowDays :
          last' = EdgesRecord(start_ts, EndOfDay(start_ts, days)) @@
                  [prev |-> IF last.op = "_bin_edges"
                            THEN EdgesRecord(last.start_ts, last.end_ts)
                            ELSE NoCall]
    /\ calls' = calls + 1
    /\ UNCHANGED <<now, timelineCacheVars, simpleCacheVars, srcVars, pc>>

NextWeekly == CallBinEdges

SpecWeekly == InitFixed /\ [][NextWeekly]_vars

(***************************************************************************)
(* Claims about the weekly anchor (SpecWeekly)                             *)
(***************************************************************************)
\* date.weekday() of a timestamp's UTC date: 0 is Monday (1970-01-01 was a
\* Thursday)
Weekday(ts) == ((ts \div 86400) + 3) % 7

IsWeeklyCall(call) ==
    call.op = "_bin_edges" /\ call.end_ts - call.start_ts > 30 * 86400

\* the starts of the bins of a call: every edge but the last
BinStartsOf(call) == {call.out[i] : i \in 1..(Len(call.out) - 1)}

TwoWeeklyWindows ==
    /\ last.op = "_bin_edges"
    /\ IsWeeklyCall(last) /\ IsWeeklyCall(last.prev)
    /\ last.start_ts \div 86400 # last.prev.start_ts \div 86400

\* C20: when weekly granularity is selected the bin boundaries are anchored
\* to one fixed weekday: for any two windows with different start dates,
\* every weekly bin start falls at 00:00 UTC on the same day of the week.
C20_WeeklyAnchoredToOneWeekday ==
    TwoWeeklyWindows =>
        \A s \in BinStartsOf(last), t \in BinStartsOf(last.prev) :
            /\ s % 86400 = 0 /\ t % 86400 = 0
            /\ Weekday(s) = Weekday(t)

\* C20, the failing case: a window starting on a Monday and one starting on
\* a Tuesday have their weekly bins start on Mondays and on Tuesdays
C20_BinsFollowStartDate ==
    /\ TwoWeeklyWindows
    /\ \A t \in BinStartsOf(last.prev) : Weekday(t) = 0
    /\ \A s \in BinStartsOf(last) : Weekday(s) = 1

\* what does hold: the weekly bins of one window all start at 00:00 UTC on
\* the weekday of the window's start date
WeeklyBinsOnStartWeekday ==
    IsWeeklyCall(last) =>
        \A s \in BinStartsOf(last) :
            s % 86400 = 0 /\ Weekday(s) = Weekday(last.start_ts)

\* the bets of the last call that lie in bin i, as positions in the input
BetsInBin(i) ==
    {k \in 1..Len(last.enriched_bets) :
        i \in BinsHolding(last.out.edges, last.enriched_bets[k].timestamp)}

\* C21: a tool's series value for a bin is absent (None), never 0, exactly
\* when the tool has no bet in the bin; the overall series of a bin counts
\* only the bets whose tool is not "unknown" and is absent exactly when the
\* bin holds no such bet, so a bin holding only "unknown" bets has an absent
\* overall value.
C21_AbsentWhenNoBets ==
    IsBinCall =>
        \A i \in 1..(Len(last.out.edges) - 1) :
            /\ \A tool \in DOMAIN last.out.tool_series :
                  LET mine == {k \in BetsInBin(i) :
                                  last.enriched_bets[k].tool = tool}
                      value == last.out.tool_series[tool][i]
                  IN /\ (value = <<>>) <=> (mine = {})
                     /\ mine # {} =>
                           /\ Len(value) = 1
                           /\ LET correct == Cardinality({k \in mine :
                                      last.enriched_bets[k].is_correct})
                              IN 2 * value[1] * Cardinality(mine)
                                    - 2000 * correct
                                    \in (0 - Cardinality(mine))..Cardinality(mine)
            /\ LET known == {k \in BetsInBin(i) :
                                last.enriched_bets[k].tool # "unknown"}
                   overall == last.out.overall_series[i]
               IN /\ (overall = <<>>) <=> (known = {})
                  /\ known # {} =>
                        /\ Len(overall) = 1
                        /\ LET correct == Cardinality({k \in known :
                                   last.enriched_bets[k].is_correct})
                           IN 2 * overall[1] * Cardinality(known)
                                 - 2000 * correct
                                 \in (0 - Cardinality(known))..Cardinality(known)

\* C21 witness: tool A has a wrong bet in the first bin (accuracy 0.0) and
\* none in the second, which holds only an "unknown" bet: A's value and the
\* overall value of the second bin are absent, that of "unknown" is not
C21_Witness ==
    /\ IsBinCall
    /\ Len(last.out.edges) >= 3
    /\ DOMAIN last.out.tool_series = {"A", "unknown"}
    /\ last.out.tool_series["A"][1] = <<0>>
    /\ last.out.tool_series["A"][2] = <<>>
    /\ last.out.tool_series["unknown"][2] = <<1000>>
    /\ last.out.overall_series[1] = <<0>>
    /\ last.out.overall_series[2] = <<>>

(***************************************************************************)
(* Command line of tool_accuracy_timeline.py                               *)
(***************************************************************************)
\* an option as argparse leaves it: not given (None), or given with a text
NotGiven == [given |-> FALSE]
Given(text) == [given |-> TRUE, text |-> text]

\* texts of a date option: the empty string, a text strptime("%Y-%m-%d")
\* parses to the day with that number (days since 1970-01-01), or a text it
\* rejects
EmptyText == [kind |-> "empty"]
DateText(day) == [kind |-> "date", day |-> day]
GarbageText == [kind |-> "garbage"]

Digits == {"0", "1", "2", "3", "4", "5", "6", "7", "8", "9"}

DigitValue(c) ==
    CASE c = "0" -> 0 [] c = "1" -> 1 [] c = "2" -> 2 [] c = "3" -> 3
      [] c = "4" -> 4 [] c = "5" -> 5 [] c = "6" -> 6 [] c = "7" -> 7
      [] c = "8" -> 8 [] c = "9" -> 9

RECURSIVE DecimalValue(_)
DecimalValue(s) ==
    IF s = <<>> THEN 0
    ELSE 10 * DecimalValue(SubSeq(s, 1, Len(s) - 1)) + DigitValue(s[Len(s)])

AllDigits(s) == s # <<>> /\ \A i \in 1..Len(s) : s[i] \in Digits

\* int(text): an optional sign and one or more decimal digits; anything
\* else raises ValueError
IntParses(s) ==
    \/ AllDigits(s)
    \/ s # <<>> /\ s[1] = "-" /\ AllDigits(Tail(s))

IntOf(s) ==
    IF s[1] = "-" THEN 0 - DecimalValue(Tail(s)) ELSE DecimalValue(s)

\* truthiness of an option's value: None and the empty string are falsy
TruthyPeriod(opt) == opt.given /\ opt.text # <<>>
TruthyDate(opt) == opt.given /\ opt.text.kind # "empty"

\* parser.error(message): usage message on stderr, SystemExit(2)
UsageError(message) == [returned |-> FALSE, exit_code |-> 2, message |-> message]
ReturnWindow(start_ts, end_ts) ==
    [returned |-> TRUE, start_ts |-> start_ts, end_ts |-> end_ts]

\* the end of today taken as the next midnight (alternative)
TodayEndNextMidnight(clock) == Midnight(clock) + SECONDS_PER_DAY

\* datetime.now(tz=utc).replace(hour=23, minute=59, second=59)
TodayEnd(clock) == Midnight(clock) + SECONDS_PER_DAY - 1

\* if end_ts <= start_ts: parser.error(...); return start_ts, end_ts
CheckedWindow(start_ts, end_ts) ==
    IF end_ts <= start_ts
    THEN UsageError("End date must be after start date.")
    ELSE ReturnWindow(start_ts, end_ts)

\* the branch of --period and of the default
PeriodBranch(args, now_, today_end) ==
    LET period_str == IF TruthyPeriod(args.period)
                      THEN args.period.text ELSE <<"3", "0", "d">>
    IN IF period_str[Len(period_str)] # "d"
       THEN UsageError("--period must end with 'd'")
       ELSE IF ~IntParses(SubSeq(period_str, 1, Len(period_str) - 1))
       THEN UsageError("Invalid --period value")
       ELSE CheckedWindow(
                now_ - IntOf(SubSeq(period_str, 1, Len(period_str) - 1))
                           * SECONDS_PER_DAY,
                today_end)

\* the branch of --start
StartBranch(args, today_end) ==
    IF args.start.text.kind # "date"
    THEN UsageError("Invalid --start date")
    ELSE IF TruthyDate(args.end)
    THEN IF args.end.text.kind # "date"
         THEN UsageError("Invalid --end date")
         ELSE CheckedWindow(args.start.text.day * SECONDS_PER_DAY,
                            args.end.text.day * SECONDS_PER_DAY
                                + SECONDS_PER_DAY - 1)
    ELSE CheckedWindow(args.start.text.day * SECONDS_PER_DAY, today_end)

\* _parse_args with the options args, time.time() reading now_ and
\* datetime.now() reading clock
_parse_args(args, now_, clock) ==
    IF args.period.given /\ args.start.given
    THEN UsageError("argument --start: not allowed with argument --period")
    ELSE IF TruthyDate(args.start)
    THEN StartBranch(args, TodayEnd(clock))
    ELSE IF TruthyDate(args.end)
    THEN UsageError("--end requires --start.")
    ELSE PeriodBranch(args, now_, TodayEnd(clock))

(***************************************************************************)
(* Specification SpecArgs: _parse_args under every combination of the      *)
(* three options, short --period texts, dates around today and clock       *)
(* readings at the start, the middle and the last second of a day.         *)
(***************************************************************************)
MaxPeriodLen == 3

PeriodChars == {"0", "2", "3", "9", "d", "x", "-"}

PeriodOptions ==
    {NotGiven} \cup {Given(t) : t \in SeqsUpTo(PeriodChars, MaxPeriodLen)}

\* the day of the run: 2024-02-10
Today == 19723 + 40

DateOptions ==
    {NotGiven, Given(EmptyText), Given(GarbageText)}
        \cup {Given(DateText(d)) : d \in {Today - 45, Today - 10, Today, Today + 1}}

\* <<time.time(), datetime.now()>>: the second reading is not earlier than
\* the first, and may fall on the next day
ArgClocks ==
    {<<Today * SECONDS_PER_DAY + t, Today * SECONDS_PER_DAY + t>> :
        t \in {0, 12 * 3600, SECONDS_PER_DAY - 1}}
      \cup {<<Today * SECONDS_PER_DAY + SECONDS_PER_DAY - 1,
              (Today + 1) * SECONDS_PER_DAY>>}

CallParseArgs ==
    /\ pc = "idle"
    /\ \E period \in PeriodOptions, start \in DateOptions, end \in DateOptions,
          clocks \in ArgClocks :
          LET args == [period |-> period, start |-> start, end |-> end]
          IN last' = [op |-> "_parse_args", args |-> args,
                      now |-> clocks[1], clock |-> clocks[2],
                      out |-> _parse_args(args, clocks[1], clocks[2])]
    /\ pc' = "done"
    /\ UNCHANGED stateVars

\* main after _parse_args has returned: the window is binned (bin_bets ->
\* _bin_edges) and the granularity reported
BinWindowOfArgs ==
    /\ pc = "done"
    /\ last.op = "_parse_args"
    /\ last.out.returned
    /\ last' = [op |-> "main_bins", args |-> last.args,
                now |-> last.now, clock |-> last.clock,
                start_ts |-> last.out.start_ts, end_ts |-> last.out.end_ts,
                step_days |-> StepDays(last.out.start_ts, last.out.end_ts),
                edges |-> _bin_edges(last.out.start_ts, last.out.end_ts),
                granularity |->
                    IF last.out.end_ts - last.out.start_ts
                          <= 30 * SECONDS_PER_DAY
                    THEN "daily" ELSE "weekly"]
    /\ pc' = "binned"
    /\ UNCHANGED stateVars

NextArgs == CallParseArgs \/ BinWindowOfArgs

SpecArgs == InitFixed /\ [][NextArgs]_vars

(***************************************************************************)
(* Claims about the command line (SpecArgs)                                *)
(***************************************************************************)
IsParseCall == last.op = "_parse_args"

\* the text is '<integer>d': an optionally signed run of digits, then d
IsIntegerD(text) ==
    /\ Len(text) >= 2
    /\ text[Len(text)] = "d"
    /\ LET first == IF text[1] = "-" THEN 2 ELSE 1
       IN /\ first <= Len(text) - 1
          /\ \A i \in first..(Len(text) - 1) : text[i] \in Digits

\* an invalid combination of options, as C22 lists them
EndWithoutStart == last.args.end.given /\ ~last.args.start.given
PeriodWithStart == last.args.period.given /\ last.args.start.given
BadPeriod == last.args.period.given /\ ~IsIntegerD(last.args.period.text)
BadDate ==
    \/ last.args.start.given /\ last.args.start.text.kind # "date"
    \/ last.args.end.given /\ last.args.end.text.kind # "date"

Rejected == ~last.out.returned /\ last.out.exit_code = 2

\* C22: _parse_args rejects with a usage error and non-zero exit every
\* invalid combination: --end without --start, --period together with
\* --start, a --period value that is not '<integer>d', an unparseable date,
\* and any window with end_ts <= start_ts; whenever it returns, the pair
\* satisfies start_ts < end_ts.
C22_RejectsInvalidArgs ==
    IsParseCall =>
        /\ (EndWithoutStart \/ PeriodWithStart \/ BadPeriod \/ BadDate)
              => Rejected
        /\ last.out.returned => last.out.start_ts < last.out.end_ts
        /\ last.out.returned \/ Rejected

\* C22, the failing case: --period given with an empty value is taken for
\* the default 30d and a window is returned
C22_EmptyPeriodAccepted ==
    /\ IsParseCall
    /\ last.args.period = Given(<<>>)
    /\ ~last.args.start.given /\ ~last.args.end.given
    /\ last.out.returned
    /\ last.out.start_ts = last.now - 30 * 86400

\* likewise an empty --end next to a valid --start is taken for today
C22_EmptyEndAccepted ==
    /\ IsParseCall
    /\ last.args.start = Given(DateText(Today - 10))
    /\ last.args.end = Given(EmptyText)
    /\ last.out.returned

\* what does hold: with no option given an empty value, every invalid
\* combination is rejected, and a returned window has start_ts < end_ts
NoEmptyValue ==
    /\ last.args.period # Given(<<>>)
    /\ last.args.start # Given(EmptyText)
    /\ last.args.end # Given(EmptyText)

RejectsInvalidNonEmptyArgs ==
    (IsParseCall /\ NoEmptyValue) => C22_RejectsInvalidArgs

\* a window with end_ts <= start_ts is rejected: the end date before the
\* start date, a start date of tomorrow, a negative period
RejectsEmptyWindow ==
    /\ IsParseCall
    /\ ~last.out.returned
    /\ last.out.message = "End date must be after start date."
    /\ last.args.period = Given(<<"-", "2", "d">>)

\* a run with --period Nd (N an integer) or with no option at all
IsPeriodRun ==
    /\ last.op = "main_bins"
    /\ ~last.args.start.given /\ ~last.args.end.given
    /\ last.args.period.given => IsIntegerD(last.args.period.text)

\* the N of --period Nd, 30 by default
RequestedDays ==
    IF last.args.period.given
    THEN IntOf(SubSeq(last.args.period.text, 1,
                      Len(last.args.period.text) - 1))
    ELSE 30

SecondOfDay(ts) == ts % 86400

\* C29: for --period Nd (and the default 30d) _parse_args returns
\* start_ts = now - N * 86400 and end_ts = 23:59:59 UTC of the current day,
\* so end_ts - start_ts >= N * 86400, with equality only when now is exactly
\* 23:59:59 UTC; a period of 30 days therefore selects weekly granularity
\* whenever now is earlier than 23:59:59 UTC, and daily granularity is
\* selected only for N <= 29 or at that exact second.
C29_Period30IsWeekly ==
    IsPeriodRun =>
        /\ last.start_ts = last.now - RequestedDays * 86400
        /\ SecondOfDay(last.end_ts) = 86399
        /\ last.end_ts \div 86400 = last.clock \div 86400
        /\ last.end_ts - last.start_ts >= RequestedDays * 86400
        /\ last.end_ts - last.start_ts = RequestedDays * 86400
              => SecondOfDay(last.now) = 86399
        /\ (RequestedDays = 30 /\ SecondOfDay(last.now) < 86399)
              => /\ last.step_days = 7
                 /\ last.granularity = "weekly"
                 /\ last.edges[2] - last.edges[1] = 7 * 86400
        /\ last.step_days = 1
              => (RequestedDays <= 29 \/ SecondOfDay(last.now) = 86399)

\* C29 witness: the default period at noon is binned weekly
C29_Witness ==
    /\ IsPeriodRun
    /\ ~last.args.period.given
    /\ SecondOfDay(last.now) = 12 * 3600
    /\ last.end_ts - last.start_ts = 30 * 86400 + 12 * 3600 - 1
    /\ last.granularity = "weekly"

\* --period 30d at 23:59:59 is binned daily, and so is --period 29d
C29_WitnessLastSecond ==
    /\ IsPeriodRun
    /\ last.args.period = Given(<<"3", "0", "d">>)
    /\ SecondOfDay(last.now) = 86399
    /\ last.step_days = 1

C29_Witness29Days ==
    /\ IsPeriodRun
    /\ last.args.period = Given(<<"2", "9", "d">>)
    /\ SecondOfDay(last.now) = 0
    /\ last.step_days = 1

(***************************************************************************)
(* main of the three scripts                                               *)
(***************************************************************************)
\* how a run ends: exit status 0 after a normal return or sys.exit(0),
\* status 1 and a traceback after an uncaught exception; printed lists the
\* stages that wrote their report
MainOut(exit_code, exc, printed, bets, stats, cache, file) ==
    [exit_code |-> exit_code, exc |-> exc, printed |-> printed,
     bets |-> bets, stats |-> stats, cache |-> cache, file |-> file]

\* print_stats: col_tool = max(len(s["tool"]) for s in stats) raises
\* ValueError on an empty sequence
print_stats(stats) ==
    IF stats = <<>> THEN [raised |-> TRUE, exc |-> "ValueError"]
    ELSE [raised |-> FALSE, exc |-> None]

\* if not bets: print("No resolved bets found ..."); sys.exit(0)
NoBetsExit(bets) == bets = <<>>

\* tool_accuracy_timeline.py main
main_timeline(cache, file, now_, src, mech, start_ts, end_ts, orders) ==
    Only({
      IF f.raised
      THEN MainOut(1, f.exc, <<"fetching">>, <<>>, <<>>, f.cache, f.file)
      ELSE IF NoBetsExit(f.result)
      THEN MainOut(0, None, <<"fetching", "no_bets_found">>, f.result, <<>>,
                   f.cache, f.file)
      ELSE Only({
             MainOut(0, None,
                     <<"fetching", "bets", "enriched", "summary", "bins",
                       "plot">>,
                     f.result, compute_overall_stats(e.enriched), e.cache,
                     e.file) :
             e \in {enrich_bets_with_tool(f.cache, f.file, now_, mech,
                        f.result, start_ts,
                        CHOOSE o \in orders : Range(o) = AgentsOf(f.result),
                        [a \in Agents |-> <<>>])}}) :
      f \in {fetch_bets_in_range(cache, file, now_, src, start_ts, end_ts,
                                 <<>>)}})

\* what follows fetch_last_bets in main of tool_accuracy.py and of
\* tool_accuracy_polymarket.py
AfterLastBets(f, e, cache, file) ==
    IF f.raised
    THEN MainOut(1, f.exc, <<"fetching">>, <<>>, <<>>, cache, file)
    ELSE IF e.raised
    THEN MainOut(1, e.exc, <<"fetching", "fetched">>, f.result, <<>>,
                 e.cache, e.file)
    ELSE Only({
           IF print_stats(stats).raised
           THEN MainOut(1, print_stats(stats).exc,
                        <<"fetching", "fetched", "enriched">>,
                        f.result, stats, e.cache, e.file)
           ELSE MainOut(0, None,
                        <<"fetching", "fetched", "enriched", "stats">>,
                        f.result, stats, e.cache, e.file) :
           stats \in {compute_tool_accuracy(e.enriched)}})

\* tool_accuracy.py main(n)
main_simple(cache, file, now_, src, mech, n) ==
    Only({
      Only({AfterLastBets(f, e, cache, file) :
            e \in {enrich_bets_with_tool_simple(cache, file,
                       Frozen(f.result, now_), mech, f.result,
                       [a \in Agents |-> <<>>])}}) :
      f \in {fetch_last_bets(src, n, <<>>)}})

\* tool_accuracy_polymarket.py main(n)
main_polymarket(cache, file, now_, src, mech, n) ==
    Only({
      Only({AfterLastBets(f, e, cache, file) :
            e \in {enrich_bets_with_tool_polymarket(cache, file,
                       Frozen(f.result, now_), mech, f.result,
                       [a \in Agents |-> <<>>])}}) :
      f \in {fetch_last_bets_polymarket(src, n, <<>>)}})

(***************************************************************************)
(* Specification SpecMain: one run of each script's main against sources   *)
(* with and without resolved bets.                                         *)
(***************************************************************************)
\* the bets a source may hold: resolved ones and one without resolution
MainBets == BetWorld0 \cup {RawBet(4, 1, NoResolution)}

InitMain ==
    /\ now = StartTime
    /\ calls = 0
    /\ _cache = EmptyDict
    /\ cache_file = Missing
    /\ _mech_cache = EmptyDict
    /\ mech_cache_file = Missing
    /\ mechSrc = MechWorld0
    /\ betSrc \in SUBSET MainBets
    /\ pc = "run"
    /\ last = NoCall

MainTimeline ==
    /\ pc = "run"
    /\ \E w \in Windows :
          \E o \in {main_timeline(_cache, cache_file, now, betSrc, mechSrc,
                                  w[1], w[2], Orders(Agents) \cup
                                  Orders({"a1"}) \cup Orders({"a2"}))} :
             /\ _cache' = o.cache
             /\ cache_file' = o.file
             /\ last' = [op |-> "main_timeline", start_ts |-> w[1],
                         end_ts |-> w[2], n |-> 0,
                         out |-> [exit_code |-> o.exit_code, exc |-> o.exc,
                                  printed |-> o.printed, bets |-> o.bets,
                                  stats |-> o.stats]]
             /\ pc' = IF o.exit_code = 0 THEN "done" ELSE "crashed"
    /\ UNCHANGED <<timeVars, simpleCacheVars, srcVars>>

MainSimple ==
    /\ pc = "run"
    /\ \E n \in 0..MaxN :
          \E o \in {main_simple(_mech_cache, mech_cache_file, now, betSrc,
                                mechSrc, n)} :
             /\ _mech_cache' = o.cache
             /\ mech_cache_file' = o.file
             /\ last' = [op |-> "main_simple", start_ts |-> 0, end_ts |-> 0,
                         n |-> n,
                         out |-> [exit_code |-> o.exit_code, exc |-> o.exc,
                                  printed |-> o.printed, bets |-> o.bets,
                                  stats |-> o.stats]]
             /\ pc' = IF o.exit_code = 0 THEN "done" ELSE "crashed"
    /\ UNCHANGED <<timeVars, timelineCacheVars, srcVars>>

MainPolymarket ==
    /\ pc = "run"
    /\ \E n \in 0..MaxN :
          \E o \in {main_polymarket(_mech_cache, mech_cache_file, now,
                                    betSrc, mechSrc, n)} :
             /\ _mech_cache' = o.cache
             /\ mech_cache_file' = o.file
             /\ last' = [op |-> "main_polymarket", start_ts |-> 0,
                         end_ts |-> 0, n |-> n,
                         out |-> [exit_code |-> o.exit_code, exc |-> o.exc,
                                  printed |-> o.printed, bets |-> o.bets,
                                  stats |-> o.stats]]
             /\ pc' = IF o.exit_code = 0 THEN "done" ELSE "crashed"
    /\ UNCHANGED <<timeVars, timelineCacheVars, srcVars>>

NextMain == MainTimeline \/ MainSimple \/ MainPolymarket

SpecMain == InitMain /\ [][NextMain]_vars

(***************************************************************************)
(* Claims about main (SpecMain)                                            *)
(***************************************************************************)
IsMainRun == last.op \in {"main_timeline", "main_simple", "main_polymarket"}

\* the resolved bets of the source that the run asks for
ResolvedAsked ==
    IF last.op = "main_timeline"
    THEN {b \in betSrc : /\ b.resolution.kind = "index"
                         /\ last.start_ts <= b.timestamp
                         /\ b.timestamp <= last.end_ts}
    ELSE {b \in betSrc : b.resolution.kind = "index"}

EndsCleanly == pc = "done" /\ last.out.exit_code = 0 /\ last.out.exc = None

PrintedStage(stage) ==
    \E i \in 1..Len(last.out.printed) : last.out.printed[i] = stage

\* C23: when the bet source returns no resolved bets the run is not an
\* error: it reports that no bets were found and ends cleanly (no exception,
\* exit status 0) without attempting enrichment output, in the timeline
\* variant and in main of the count-bounded variants.
C23_NoBetsEndsCleanly ==
    (IsMainRun /\ ResolvedAsked = {}) =>
        /\ EndsCleanly
        /\ last.out.bets = <<>>
        /\ ~PrintedStage("stats") /\ ~PrintedStage("summary")

\* C23, the failing case: main of tool_accuracy.py against a source whose
\* only bet is unresolved ends with the ValueError of print_stats
C23_SimpleMainRaisesOnNoBets ==
    /\ last.op = "main_simple"
    /\ last.n = 1
    /\ betSrc = {RawBet(4, 1, NoResolution)}
    /\ pc = "crashed"
    /\ last.out.exit_code = 1
    /\ last.out.exc = "ValueError"
    /\ last.out.printed = <<"fetching", "fetched", "enriched">>

\* what does hold: the timeline variant reports no bets and exits with
\* status 0
TimelineNoBetsEndsCleanly ==
    (last.op = "main_timeline" /\ ResolvedAsked = {}) =>
        /\ EndsCleanly
        /\ last.out.printed = <<"fetching", "no_bets_found">>

TimelineNoBetsWitness ==
    /\ last.op = "main_timeline"
    /\ betSrc # {}
    /\ ResolvedAsked = {}
    /\ last.out.printed = <<"fetching", "no_bets_found">>

(***************************************************************************)
(* Claims about the backing file (SpecCache)                               *)
(***************************************************************************)
IsTimelineCacheCall ==
    last.op \in {"get_mech_requests_cached", "fetch_bets_in_range"}
IsSimpleCacheCall == last.op = "get_mech_requests_cached_simple"

\* the last call refreshed its entry
Mutated == IsCachedCall /\ last.out.refreshed /\ ~last.out.raised

KeysOf(d) == {it.key : it \in d.items}

\* C24: in a single process, after every cache mutation (a successful
\* refresh in get_mech_requests_cached or fetch_bets_in_range) the backing
\* file's content equals the whole in-memory cache: the file is read only at
\* start-up and rewritten in full before the refreshed data is returned.
C24_FileEqualsCacheAfterRefresh ==
    /\ (Mutated /\ IsTimelineCacheCall) =>
          /\ cache_file.kind = "json"
          /\ cache_file.value = _cache
          /\ last.key \in KeysOf(cache_file.value)
          /\ Get(cache_file.value, last.key).payload = last.out.result
    /\ (Mutated /\ IsSimpleCacheCall) =>
          /\ mech_cache_file.kind = "json"
          /\ mech_cache_file.value = _mech_cache
          /\ last.key \in KeysOf(mech_cache_file.value)
          /\ Get(mech_cache_file.value, last.key).payload = last.out.result
    /\ cache_file.value = _cache
    /\ mech_cache_file.value = _mech_cache

\* C24 witness: after a second refresh, of another key, the file holds both
\* entries, as the memory does
C24_Witness ==
    /\ Mutated /\ IsTimelineCacheCall
    /\ last.op = "fetch_bets_in_range"
    /\ Cardinality(KeysOf(_cache)) = 2
    /\ \E k \in KeysOf(_cache) : k[1] = "mech"
    /\ cache_file = JsonText(_cache)

(***************************************************************************)
(* Specification SpecShared: two processes of tool_accuracy_timeline.py    *)
(* sharing one backing file.  Here _cache maps each process to its own     *)
(* in-memory dict (the module global of that process) and pc maps it to    *)
(* "down" (not started) or "run"; last.writer is the process whose call    *)
(* saved the file most recently.                                           *)
(***************************************************************************)
MaxSharedCalls == 3

Procs == {"p1", "p2"}

InitShared ==
    /\ now = StartTime
    /\ calls = 0
    /\ _cache = [p \in Procs |-> EmptyDict]
    /\ cache_file = Missing
    /\ _mech_cache = EmptyDict
    /\ mech_cache_file = Missing
    /\ mechSrc = MechWorld0
    /\ betSrc = BetWorld0
    /\ pc = [p \in Procs |-> "down"]
    /\ last = [op |-> "none", writer |-> "none"]

\* module import in process p: _cache = _load_cache()
StartProc(p) ==
    /\ pc[p] = "down"
    /\ ~_load_cache(cache_file).raised
    /\ _cache' = [_cache EXCEPT ![p] = _load_cache(cache_file).cache]
    /\ pc' = [pc EXCEPT ![p] = "run"]
    /\ last' = [op |-> "start", proc |-> p, writer |-> last.writer]
    /\ UNCHANGED <<timeVars, cache_file, simpleCacheVars, srcVars>>

SharedRecord(op, p, key, before, file_before, o) ==
    [op |-> op, proc |-> p, key |-> key, before |-> before,
     file_before |-> file_before, out |-> Outcome(o),
     writer |-> IF o.refreshed /\ ~o.raised THEN p ELSE last.writer]

ProcGetMechRequestsCached(p) ==
    /\ pc[p] = "run"
    /\ calls < MaxSharedCalls
    /\ \E agent \in Agents, start_ts \in StartTs,
          script \in {<<>>, <<"HTTPError">>} :
          \E o \in {get_mech_requests_cached(_cache[p], cache_file, now,
                                             mechSrc, agent, start_ts,
                                             script)} :
             /\ _cache' = [_cache EXCEPT ![p] = o.cache]
             /\ cache_file' = o.file
             /\ last' = SharedRecord("get_mech_requests_cached", p,
                                     MechKey(agent), _cache[p], cache_file, o)
    /\ calls' = calls + 1
    /\ UNCHANGED <<now, simpleCacheVars, srcVars, pc>>

ProcFetchBetsInRange(p) ==
    /\ pc[p] = "run"
    /\ calls < MaxSharedCalls
    /\ \E script \in {<<>>, <<"HTTPError">>} :
          \E o \in {fetch_bets_in_range(_cache[p], cache_file, now, betSrc,
                                        0, MaxTs, script)} :
             /\ _cache' = [_cache EXCEPT ![p] = o.cache]
             /\ cache_file' = o.file
             /\ last' = SharedRecord("fetch_bets_in_range", p,
                                     BetsKey(0, MaxTs), _cache[p], cache_file,
                                     o)
    /\ calls' = calls + 1
    /\ UNCHANGED <<now, simpleCacheVars, srcVars, pc>>

NextShared ==
    \E p \in Procs :
        \/ StartProc(p)
        \/ ProcGetMechRequestsCached(p)
        \/ ProcFetchBetsInRange(p)

SpecShared == InitShared /\ [][NextShared]_vars

(***************************************************************************)
(* Claims about two processes on one file (SpecShared)                     *)
(***************************************************************************)
\* C25: with two processes sharing one backing file, each having loaded it
\* at its own start-up, the file after any interleaving of their refreshes
\* equals the in-memory cache of whichever process wrote last; so a state is
\* reachable in which an entry written by one process is missing from the
\* file after the other process's later write.
C25_LastWriterWins ==
    /\ last.writer = "none" => cache_file = Missing
    /\ last.writer # "none" => cache_file = JsonText(_cache[last.writer])

\* C25 witness: p1 holds an entry it wrote, p2 wrote later, and the file
\* lacks p1's entry
C25_Witness ==
    /\ last.writer = "p2"
    /\ pc["p1"] = "run"
    /\ \E k \in KeysOf(_cache["p1"]) :
          /\ k \notin KeysOf(cache_file.value)
          /\ k \notin KeysOf(_cache["p2"])
    /\ cache_file = JsonText(_cache["p2"])
    /\ KeysOf(_cache["p2"]) # {}

IsSharedCall ==
    last.op \in {"get_mech_requests_cached", "fetch_bets_in_range"}

\* every entry of dict d other than the one under key is in dict e, unchanged
OthersKept(d, e, key) ==
    \A k \in KeysOf(d) \ {key} : k \in KeysOf(e) /\ Get(e, k) = Get(d, k)

\* a mech key holds a mech-request entry and a bets key a bets entry
KeysWellFormed(d) ==
    \A k \in KeysOf(d) :
        /\ k[1] \in {"mech", "bets"}
        /\ k[1] = "mech" <=> "requests" \in Get(d, k).keys
        /\ k[1] = "bets" <=> "bets" \in Get(d, k).keys

\* C27: a cache refresh for one key ('mech:<agent>' or 'bets:<start>:<end>')
\* creates or replaces only that key's entry: every other entry, in memory
\* and in the file, is unchanged, mech and bets keys never collide, and no
\* operation removes an entry, so the set of keys only grows over the life
\* of the file.
C27_OnlyOwnKeyChanges ==
    IsSharedCall =>
        /\ OthersKept(last.before, _cache[last.proc], last.key)
        /\ OthersKept(last.file_before.value, cache_file.value, last.key)
        /\ KeysOf(last.before) \subseteq KeysOf(_cache[last.proc])
        /\ KeysOf(last.file_before.value) \subseteq KeysOf(cache_file.value)
        /\ KeysWellFormed(_cache[last.proc])
        /\ KeysWellFormed(cache_file.value)

\* C27 as it holds: the refresh creates or replaces only its key's entry in
\* the memory of the process that makes it, where every other entry is
\* unchanged, no entry is ever removed and mech and bets keys do not
\* collide; the file it writes is that memory, so the file keeps the entries
\* the writing process holds and loses those it does not hold; a call that
\* does not refresh leaves memory and file as they were.
C27_OwnKeyInOwnMemory ==
    IsSharedCall =>
        /\ OthersKept(last.before, _cache[last.proc], last.key)
        /\ KeysOf(last.before) \subseteq KeysOf(_cache[last.proc])
        /\ KeysWellFormed(_cache[last.proc])
        /\ KeysWellFormed(cache_file.value)
        /\ (last.out.refreshed /\ ~last.out.raised) =>
              /\ KeysOf(_cache[last.proc]) = KeysOf(last.before) \cup {last.key}
              /\ Get(_cache[last.proc], last.key).payload = last.out.result
              /\ cache_file = JsonText(_cache[last.proc])
              /\ OthersKept(last.before, cache_file.value, last.key)
        /\ ~(last.out.refreshed /\ ~last.out.raised) =>
              /\ _cache[last.proc] = last.before
              /\ cache_file = last.file_before

\* C27 witness: a process holding a bets entry and a mech entry replaces the
\* mech entry (wider window); its bets entry is unchanged in memory and file
C27_Witness ==
    /\ IsSharedCall
    /\ last.out.refreshed /\ ~last.out.raised
    /\ last.key[1] = "mech"
    /\ last.key \in KeysOf(last.before)
    /\ Get(last.before, last.key) # Get(_cache[last.proc], last.key)
    /\ \E k \in KeysOf(last.before) :
          /\ k[1] = "bets"
          /\ Get(cache_file.value, k) = Get(last.before, k)

\* the case in which the statement about the file fails: the refresh of a
\* process that loaded the file before the other's write drops the other's
\* entry from the file
C27_FileEntryDropped ==
    /\ IsSharedCall
    /\ \E k \in KeysOf(last.file_before.value) :
          k # last.key /\ k \notin KeysOf(cache_file.value)

(***************************************************************************)
(* tool_accuracy_polymarket.py get_mech_requests_cached: the text of       *)
(* tool_accuracy.py's, with this script's 70-day lookback                  *)
(***************************************************************************)
POLYMARKET_MECH_LOOKBACK_SECONDS == 70 * 24 * 60 * 60

get_mech_requests_cached_polymarket(cache, file, now_, src, agent_address, script) ==
    LET key == SimpleKey(agent_address)
        hit == cache.type = "dict" /\ HasKey(cache, key)
        entry == IF hit THEN Get(cache, key) ELSE ScalarEntry
        Fail(exc) == CallOut(TRUE, exc, FALSE, <<>>, <<>>, cache, file)
        Refresh ==
            LET f == fetch_all_mech_requests(src, agent_address,
                         now_ - POLYMARKET_MECH_LOOKBACK_SECONDS, script)
                st == Store(cache, key, SimpleMechEntry(now_, f.result))
            IN IF f.raised
               THEN CallOut(TRUE, f.exc, TRUE, <<>>, f.pages, cache, file)
               ELSE CallOut(FALSE, None, TRUE, f.result, f.pages, st.cache,
                            st.file)
    IN IF cache.type # "dict" THEN Fail("AttributeError")
       ELSE IF ~hit THEN Refresh
       ELSE IF ~entry.is_dict THEN Fail("TypeError")
       ELSE IF "fetched_at" \notin entry.keys THEN Fail("KeyError")
       ELSE IF IsStale(now_, entry, MECH_CACHE_TTL_SECONDS) THEN Refresh
       ELSE IF "requests" \notin entry.keys THEN Fail("KeyError")
       ELSE CallOut(FALSE, None, FALSE, entry.payload, <<>>, cache, file)

(***************************************************************************)
(* Specification SpecLookback: runs of tool_accuracy.py and of             *)
(* tool_accuracy_polymarket.py, one after the other, in the directory      *)
(* whose .mech_cache.json they both use.  pc is the script that is running *)
(* ("down": none); last.window maps each agent to the start of the         *)
(* lookback window with which its cached entry was fetched.                *)
(***************************************************************************)
MaxLookbackCalls == 3

\* the clock at the first run: day 80
LookbackStart == 80 * 24 * 60 * 60

LookbackInstants ==
    {LookbackStart, LookbackStart + 1800,
     LookbackStart + MECH_CACHE_TTL_SECONDS + 1}

\* requests of a1 made 60 days and 1 day before the first run, of a2 1 day
\* before it
MechWorldOld ==
    [a \in Agents |->
        IF a = "a1"
        THEN <<Req(LookbackStart - 60 * 86400, <<"r", "a">>, "A"),
               Req(LookbackStart - 86400, <<"r", "a">>, "B")>>
        ELSE <<Req(LookbackStart - 86400, <<"s">>, "A")>>]

LookbackScripts == {"tool_accuracy", "tool_accuracy_polymarket"}

LookbackOf(script) ==
    IF script = "tool_accuracy" THEN MECH_LOOKBACK_SECONDS
    ELSE POLYMARKET_MECH_LOOKBACK_SECONDS

NoWindow == [a \in Agents |-> [fetched |-> FALSE, start |-> 0]]

InitLookback ==
    /\ now = LookbackStart
    /\ calls = 0
    /\ _cache = EmptyDict
    /\ cache_file = Missing
    /\ _mech_cache = EmptyDict
    /\ mech_cache_file = Missing
    /\ mechSrc = MechWorldOld
    /\ betSrc = BetWorld0
    /\ pc = "down"
    /\ last = [op |-> "none", window |-> NoWindow]

\* a script starts: _mech_cache = _load_cache()
StartScript ==
    /\ pc = "down"
    /\ \E script \in LookbackScripts : pc' = script
    /\ _mech_cache' = _load_cache(mech_cache_file).cache
    /\ last' = [op |-> "start", window |-> last.window]
    /\ UNCHANGED <<timeVars, timelineCacheVars, mech_cache_file, srcVars>>

\* the running script ends
ExitScript ==
    /\ pc \in LookbackScripts
    /\ pc' = "down"
    /\ last' = [op |-> "exit", window |-> last.window]
    /\ UNCHANGED <<timeVars, timelineCacheVars, simpleCacheVars, srcVars>>

TickLookback ==
    /\ \E t \in LookbackInstants : t > now /\ now' = t
    /\ last' = [op |-> "tick", window |-> last.window]
    /\ UNCHANGED <<calls, timelineCacheVars, simpleCacheVars, srcVars, pc>>

\* get_mech_requests_cached(agent_address) in the running script
LookupMechRequests ==
    /\ pc \in LookbackScripts
    /\ calls < MaxLookbackCalls
    /\ \E agent \in Agents :
          \E o \in {IF pc = "tool_accuracy"
                    THEN get_mech_requests_cached_simple(_mech_cache,
                             mech_cache_file, now, mechSrc, agent, <<>>)
                    ELSE get_mech_requests_cached_polymarket(_mech_cache,
                             mech_cache_file, now, mechSrc, agent, <<>>)} :
             /\ _mech_cache' = o.cache
             /\ mech_cache_file' = o.file
             /\ last' = [op |-> "get_mech_requests_cached", script |-> pc,
                         agent |-> agent, at |-> now,
                         window_start |-> now - LookbackOf(pc),
                         before |-> last.window[agent],
                         out |-> Outcome(o),
                         window |->
                             IF o.refreshed /\ ~o.raised
                             THEN [last.window EXCEPT ![agent] =
                                      [fetched |-> TRUE,
                                       start |-> now - LookbackOf(pc)]]
                             ELSE last.window]
    /\ calls' = calls + 1
    /\ UNCHANGED <<now, timelineCacheVars, srcVars, pc>>

NextLookback ==
    \/ StartScript
    \/ ExitScript
    \/ TickLookback
    \/ LookupMechRequests

SpecLookback == InitLookback /\ [][NextLookback]_vars

(***************************************************************************)
(* Claims about the shared .mech_cache.json (SpecLookback)                 *)
(***************************************************************************)
ServedFromCache ==
    /\ last.op = "get_mech_requests_cached"
    /\ ~last.out.refreshed /\ ~last.out.raised

\* C26: in tool_accuracy.py and tool_accuracy_polymarket.py, which use the
\* same .mech_cache.json, key entries by the bare agent address and keep no
\* fetched_from, a cached mech-request entry is never served to a call
\* whose lookback window (now - MECH_LOOKBACK_SECONDS, 14 days against 70
\* days) starts earlier than the window with which the entry was fetched.
C26_NeverServedToWiderWindow ==
    ServedFromCache =>
        /\ last.before.fetched
        /\ last.window_start >= last.before.start

\* C26, the failing case: within the hour after tool_accuracy.py cached a1's
\* requests of the last 14 days, tool_accuracy_polymarket.py is served that
\* entry for its 70-day window and misses the request made 60 days ago
C26_NarrowEntryServed ==
    /\ ServedFromCache
    /\ last.script = "tool_accuracy_polymarket"
    /\ last.agent = "a1"
    /\ last.window_start < last.before.start
    /\ Len(last.out.result) = 1
    /\ Len(MechAvailable(mechSrc, "a1", last.window_start)) = 2

\* what does hold: a script is never served an entry that a run of the same
\* script fetched with a later-starting window, since its window only moves
\* forward with the clock
SameScriptNeverWider ==
    (ServedFromCache /\ last.script = "tool_accuracy") =>
        last.window_start >= last.before.start

(***************************************************************************)
(* Specification SpecPages: one call of one of the five pagination loops   *)
(* against a static subgraph; the bets subgraph is drawn from every small  *)
(* population of bets, the mech subgraph answers or fails per script.      *)
(***************************************************************************)
\* scripts of the mech subgraph: it answers, or its first response fails
PageScripts == SeqsUpTo(Outcomes, 1)

CallFetchMechRequestsFromApi ==
    /\ pc = "idle"
    /\ \E agent \in Agents, ts \in StartTs, script \in PageScripts :
          last' = [op |-> "_fetch_all_mech_requests_from_api",
                   agent |-> agent, timestamp_gt |-> ts, script |-> script,
                   out |-> _fetch_all_mech_requests_from_api(mechSrc, agent,
                                                             ts, script)]
    /\ pc' = "done"
    /\ UNCHANGED stateVars

CallFetchAllMechRequests ==
    /\ pc = "idle"
    /\ \E agent \in Agents, ts \in StartTs, script \in PageScripts :
          last' = [op |-> "fetch_all_mech_requests",
                   agent |-> agent, timestamp_gt |-> ts, script |-> script,
                   out |-> fetch_all_mech_requests(mechSrc, agent, ts,
                                                   script)]
    /\ pc' = "done"
    /\ UNCHANGED stateVars

NextPages ==
    \/ CallFetchLastBets
    \/ CallFetchLastBetsPolymarket
    \/ CallFetchBetsInWindow
    \/ CallFetchMechRequestsFromApi
    \/ CallFetchAllMechRequests

SpecPages == InitBets /\ [][NextPages]_vars

OffsetLoops ==
    {"fetch_last_bets", "_fetch_bets_from_api", "fetch_all_mech_requests",
     "_fetch_all_mech_requests_from_api"}

CursorLoop == "fetch_last_bets_polymarket"

IsPagedCall == pc = "done" /\ last.op \in OffsetLoops \cup {CursorLoop}

\* raw records received by the page requests before request p
RECURSIVE Accumulated(_, _)
Accumulated(pages, p) ==
    IF p <= 1 THEN 0 ELSE Accumulated(pages, p - 1) + pages[p - 1].got

\* records the source holds for the call
SourceSize ==
    IF last.op \in {"fetch_all_mech_requests",
                    "_fetch_all_mech_requests_from_api"}
    THEN Len(mechSrc[last.agent])
    ELSE Cardinality(betSrc)

OffsetIsAccumulated ==
    \A p \in 1..Len(last.out.pages) :
        last.out.pages[p].skip = Accumulated(last.out.pages, p)

\* the first request carries no cursor, every later one an id below the
\* one before
CursorDecreases ==
    \A p \in 1..Len(last.out.pages) :
        /\ (p = 1) = (last.out.pages[p].skip = 0)
        /\ p > 2 => last.out.pages[p].skip < last.out.pages[p - 1].skip

EmptyOrShort(e) == e.got < e.first

CountReached ==
    CASE last.op = "fetch_last_bets" ->
             Accumulated(last.out.pages, Len(last.out.pages) + 1) >= last.n
      [] last.op = CursorLoop -> Len(last.out.result) >= last.n
      [] OTHER -> FALSE

StopsAtFirstEmptyOrShort ==
    LET pages == last.out.pages
    IN /\ \A p \in 1..Len(pages) - 1 : ~EmptyOrShort(pages[p])
       /\ ~last.out.raised =>
              \/ CountReached
              \/ pages # <<>> /\ EmptyOrShort(pages[Len(pages)])

StopsAtFirstEmpty ==
    LET pages == last.out.pages
    IN /\ \A p \in 1..Len(pages) - 1 : pages[p].got > 0
       /\ ~last.out.raised =>
              \/ CountReached
              \/ pages # <<>> /\ pages[Len(pages)].got = 0

\* C28 as stated: in every pagination loop the offset sent with a page
\* request is the number of raw records accumulated so far (in the cursor
\* loop the cursor id strictly decreases), the loop ends within one request
\* per record of the source plus one, and it stops at the first empty or
\* short page or once the requested count is reached.
C28_OffsetsAndTermination ==
    IsPagedCall =>
        /\ last.op \in OffsetLoops => OffsetIsAccumulated
        /\ last.op = CursorLoop => CursorDecreases
        /\ Len(last.out.pages) <= SourceSize + 1
        /\ StopsAtFirstEmptyOrShort

\* C28 amended: as above, except that the cursor loop stops only at the
\* first empty page or once the requested count of resolved bets is reached;
\* a short page does not stop it.
C28_CursorLoopStopsAtEmptyPage ==
    IsPagedCall =>
        /\ last.op \in OffsetLoops =>
               OffsetIsAccumulated /\ StopsAtFirstEmptyOrShort
        /\ last.op = CursorLoop => CursorDecreases /\ StopsAtFirstEmpty
        /\ Len(last.out.pages) <= SourceSize + 1

\* C28 case: the cursor loop received a short page and asked for another
C28_Witness ==
    /\ IsPagedCall /\ last.op = CursorLoop /\ ~last.out.raised
    /\ \E p \in 1..Len(last.out.pages) - 1 :
           /\ last.out.pages[p].got > 0
           /\ EmptyOrShort(last.out.pages[p])

\* an offset loop that sent a second request, with a positive offset
C28_WitnessOffset ==
    /\ IsPagedCall /\ last.op \in OffsetLoops /\ ~last.out.raised
    /\ Len(last.out.pages) >= 2
    /\ last.out.pages[2].skip > 0

\* the cursor loop sent three requests: two cursors to compare
C28_WitnessCursor ==
    /\ IsPagedCall /\ last.op = CursorLoop /\ ~last.out.raised
    /\ Len(last.out.pages) >= 3

\* a count-bounded loop that stopped on the count, its last page full
C28_WitnessCount ==
    /\ IsPagedCall /\ last.op = "fetch_last_bets"
    /\ last.out.pages # <<>>
    /\ ~EmptyOrShort(last.out.pages[Len(last.out.pages)])

(***************************************************************************)
(* The log-scanning scripts: find_all_tools_requested_from_a_mech.py,      *)
(* mech/find_deliver_events_for_a_request_id.py,                           *)
(* mech/find_mech_delivers_for_al_tool.py and                              *)
(* market-creator/market-watcher.py.  Each operator gives the [start, end] *)
(* block ranges passed to successive w3.eth.get_logs calls by a scan that  *)
(* runs to the end of its loop.                                            *)
(***************************************************************************)
BLOCK_TIME_SECONDS == 5
MAX_BLOCK_SPAN == 20000

\* int((24 * 60 * 60) / BLOCK_TIME_SECONDS)
blocks_per_day == (24 * 60 * 60) \div BLOCK_TIME_SECONDS

BlockRange(start, end) == [start |-> start, end |-> end]

\* len(range(start, stop, step)) for a positive step
RangeLen(start, stop, step) ==
    IF start >= stop THEN 0 ELSE (stop - start + step - 1) \div step

\* for start in range(from_block, stop, MAX_BLOCK_SPAN):
\*     end = min(start + MAX_BLOCK_SPAN - 1, latest_block)
RangeLoop(from_block, stop, latest_block) ==
    [i \in 1..RangeLen(from_block, stop, MAX_BLOCK_SPAN) |->
        LET start == from_block + (i - 1) * MAX_BLOCK_SPAN
        IN BlockRange(start, Min(start + MAX_BLOCK_SPAN - 1, latest_block))]

\* the stop of range(): the scripts pass latest_block, which range() excludes
RangeStop(latest_block) == latest_block

ScanRanges(from_block, latest_block) ==
    RangeLoop(from_block, RangeStop(latest_block), latest_block)

\* max(latest_block - (blocks_per_day * days), 0)
DefaultFromBlock(latest_block, days) ==
    IF latest_block - (blocks_per_day * days) >= 0
    THEN latest_block - (blocks_per_day * days) ELSE 0

\* if from_block is None: from_block = max(...)
\* from_block is None, or a block number: <<>> or <<b>>
FromBlockOr(from_block, latest_block, days) ==
    IF from_block = <<>> THEN DefaultFromBlock(latest_block, days)
    ELSE from_block[1]

Scan(from_block, latest_block, ranges) ==
    [from_block |-> from_block, latest_block |-> latest_block,
     ranges |-> ranges]

get_all_tool_ids(latest_block, days, from_block) ==
    LET from == FromBlockOr(from_block, latest_block, days)
    IN Scan(from, latest_block, ScanRanges(from, latest_block))

find_tx_by_request_id(latest_block, days) ==
    LET from == DefaultFromBlock(latest_block, days)
    IN Scan(from, latest_block, ScanRanges(from, latest_block))

find_tx_by_request_id_for_tool(latest_block, days, from_block) ==
    LET from == FromBlockOr(from_block, latest_block, days)
    IN Scan(from, latest_block, ScanRanges(from, latest_block))

\* market-watcher.py: while cur <= end: stop = min(cur + batch - 1, end)
RECURSIVE BatchLoop(_, _, _, _)
BatchLoop(cur, end, batch, ranges) ==
    IF ~(cur <= end) THEN ranges
    ELSE LET stop == Min(cur + batch - 1, end)
         IN BatchLoop(stop + 1, end, batch,
                      Append(ranges, BlockRange(cur, stop)))

batch_get_logs(start, end, batch) ==
    Scan(start, end, BatchLoop(start, end, batch, <<>>))

(***************************************************************************)
(* Specification SpecScan: one scan by one of the four scripts, for chain  *)
(* heights and windows on both sides of every multiple of MAX_BLOCK_SPAN.  *)
(***************************************************************************)
\* most whole spans in a scanned window, and the widest look-back in days
MaxSpans == 2
MaxDays == 2

\* distances from a multiple of MAX_BLOCK_SPAN
NearSpan == {0, 1, MAX_BLOCK_SPAN - 1}

SpanDistances ==
    {k * MAX_BLOCK_SPAN + d : k \in 0..MaxSpans, d \in NearSpan}

\* w3.eth.block_number: a young chain, or one at a running height
ChainHead == 43000000
LatestBlocks == SpanDistances \cup {ChainHead + d : d \in NearSpan}

\* --days: none, one .. MaxDays, and 125 days, which is 108 whole spans
DayOptions == 0..MaxDays \cup {125}

FromBlockOptions(latest_block) ==
    {<<>>} \cup
    {<<latest_block - d>> : d \in {x \in SpanDistances : x <= latest_block}}

ScanRecord(op, scan) ==
    [op |-> op, from_block |-> scan.from_block,
     latest_block |-> scan.latest_block, ranges |-> scan.ranges]

CallGetAllToolIds ==
    /\ pc = "idle"
    /\ \E latest \in LatestBlocks, days \in DayOptions :
         \E from \in FromBlockOptions(latest) :
            last' = ScanRecord("get_all_tool_ids",
                               get_all_tool_ids(latest, days, from))
    /\ pc' = "done"
    /\ UNCHANGED stateVars

CallFindDeliverEvents ==
    /\ pc = "idle"
    /\ \E latest \in LatestBlocks, days \in DayOptions :
          last' = ScanRecord("find_deliver_events",
                             find_tx_by_request_id(latest, days))
    /\ pc' = "done"
    /\ UNCHANGED stateVars

CallFindMechDelivers ==
    /\ pc = "idle"
    /\ \E latest \in LatestBlocks, days \in DayOptions :
         \E from \in FromBlockOptions(latest) :
            last' = ScanRecord("find_mech_delivers",
                               find_tx_by_request_id_for_tool(latest, days,
                                                              from))
    /\ pc' = "done"
    /\ UNCHANGED stateVars

\* FROM_BLOCK = block_by_timestamp(start_ts) lies in 1..TO_BLOCK
CallBatchGetLogs ==
    /\ pc = "idle"
    /\ \E end \in LatestBlocks \ {0} :
         \E d \in {x \in SpanDistances : x < end} :
            last' = ScanRecord("batch_get_logs",
                               batch_get_logs(end - d, end, MAX_BLOCK_SPAN))
    /\ pc' = "done"
    /\ UNCHANGED stateVars

NextScan ==
    \/ CallGetAllToolIds
    \/ CallFindDeliverEvents
    \/ CallFindMechDelivers
    \/ CallBatchGetLogs

SpecScan == InitFixed /\ [][NextScan]_vars

ScanOps ==
    {"get_all_tool_ids", "find_deliver_events", "find_mech_delivers",
     "batch_get_logs"}

IsScanCall == pc = "done" /\ last.op \in ScanOps

BlocksIn(r) == IF r.end < r.start THEN 0 ELSE r.end - r.start + 1

RangesDisjoint(ranges) ==
    \A i, j \in 1..Len(ranges) :
        i < j => ranges[i].end < ranges[j].start \/ ranges[j].end < ranges[i].start

RangesWithin(ranges, lo, hi) ==
    \A i \in 1..Len(ranges) :
        /\ lo <= ranges[i].start
        /\ ranges[i].start <= ranges[i].end
        /\ ranges[i].end <= hi
        /\ BlocksIn(ranges[i]) <= MAX_BLOCK_SPAN

Scanned(ranges, b) ==
    \E i \in 1..Len(ranges) : ranges[i].start <= b /\ b <= ranges[i].end

\* ranges inside lo..hi leave no block of lo..hi out when lo is in a range
\* and the block after the end of each range that ends before hi is in one
RangesCover(ranges, lo, hi) ==
    IF lo > hi THEN ranges = <<>>
    ELSE /\ Scanned(ranges, lo)
         /\ \A i \in 1..Len(ranges) :
                ranges[i].end < hi => Scanned(ranges, ranges[i].end + 1)

RangesPartition(ranges, lo, hi) ==
    /\ RangesDisjoint(ranges)
    /\ RangesWithin(ranges, lo, hi)
    /\ RangesCover(ranges, lo, hi)

\* C30: the block ranges passed to successive get_logs calls are pairwise
\* disjoint, each spans at most MAX_BLOCK_SPAN blocks, and their union is
\* every block from from_block to latest_block inclusive; in particular the
\* latest block is scanned.
C30_RangesPartitionWindow ==
    IsScanCall =>
        /\ RangesPartition(last.ranges, last.from_block, last.latest_block)
        /\ last.from_block <= last.latest_block =>
               Scanned(last.ranges, last.latest_block)

\* C30 failing case: a scan whose window is a whole number of spans wide ends
\* one block short: the latest block is in no range
C30_LatestBlockUnscanned ==
    /\ IsScanCall
    /\ last.from_block <= last.latest_block
    /\ ~Scanned(last.ranges, last.latest_block)

\* the same with a window of one block: no get_logs call at all
C30_NothingScanned ==
    /\ IsScanCall
    /\ last.from_block = last.latest_block
    /\ last.ranges = <<>>

\* the widths of window that end one block short
WholeSpans(scan) ==
    /\ scan.from_block <= scan.latest_block
    /\ (scan.latest_block - scan.from_block) % MAX_BLOCK_SPAN = 0

\* what does hold: the ranges are disjoint, within the window and no wider
\* than MAX_BLOCK_SPAN; batch_get_logs covers its window, and so do the three
\* range() loops except that they leave out the latest block when the window
\* is a whole number of spans wide
ScansAllButLatestOfWholeSpans ==
    IsScanCall =>
        IF last.op # "batch_get_logs" /\ WholeSpans(last)
        THEN /\ RangesPartition(last.ranges, last.from_block,
                                last.latest_block - 1)
             /\ ~Scanned(last.ranges, last.latest_block)
        ELSE RangesPartition(last.ranges, last.from_block, last.latest_block)

\* a scan of several ranges that covers its window
ScanCoversWindow ==
    /\ IsScanCall
    /\ Len(last.ranges) >= 3
    /\ Scanned(last.ranges, last.latest_block)

====
